---- MODULE Spec2Model ----
(***************************************************************************)
(* A model of jaxlib/gpu/triton_kernels.cc: the assembly-image cache, the  *)
(* per-context function loader, KernelCall parameter marshaling, the       *)
(* one-shot autotuner of AutotunedKernelCall and the decode cache.         *)
(*                                                                         *)
(* Each component has its own specification over the shared variables:     *)
(*   SpecTune    AutotunedKernelCall::Launch / Autotune / Benchmark        *)
(*   SpecLaunch  KernelCall::Launch                                        *)
(*   SpecImage   GetModuleImage / Kernel::Launch / discarded configs       *)
(*   SpecFunc    ModuleImage::GetFunctionForContext                        *)
(*   SpecDecode  GetKernelCall                                             *)
(*   SpecEntry   TritonKernelCall                                          *)
(*   SpecContext the context push / pop of Autotune and the loader         *)
(*   SpecZlib    ZlibUncompress (SpecZlibFair: the loop keeps running)     *)
(*   SpecProto   ToProto / FromProto of the call objects                   *)
(*   SpecIters   the phase-2 iteration count of Autotune                   *)
(* Driver calls, the assembler, the timer and the kernels themselves are   *)
(* the environment: their results are chosen nondeterministically.         *)
(***************************************************************************)
EXTENDS Integers, Sequences, FiniteSets, TLC

VARIABLES
    \* ---- AutotunedKernelCall (one instance) and its concurrent launches
    configs_,              \* std::vector<Config>: ids of the original configs
    input_output_aliases_, \* sequence of (input_idx, output_idx, size)
    autotune_once_,        \* absl::once_flag: "init" | "running" | "done"
    autotune_status_,      \* absl::Status stored by the one-shot step
    buffers,               \* void** buffers of the launches: index -> address
    mem,                   \* device memory: address -> bytes
    input_copies,          \* host snapshots of Autotune: input_idx -> bytes
    pc,                    \* position of each launch call
    idx,                   \* loop position inside Autotune
    best,                  \* running minimum of Autotune
    timed_iters,           \* iteration count computed after phase 1
    p2time,                \* config id -> time measured in phase 2 (NoTime: none)
    p2count,               \* config id -> number of phase-2 measurements
    autotuneCalls,         \* number of times Autotune was entered
    erased,                \* Autotune reached its discard step
    ret,                   \* status returned by each launch call
    launched,              \* config id launched after the gate by each call
    ctxDepth,              \* depth of the pushed-context stack of each call
    oob,                   \* some launch indexed configs_[0] of an empty list
    restores,              \* the restore copies Autotune issued, in order
    \* ---- KernelCall::Launch
    parameters_,           \* std::vector<Parameter>
    lbuffers,              \* the caller's buffer list (addresses)
    lstream,               \* the stream of the launch
    lpc,                   \* position of the launch: loop index and buffer cursor
    devcalls,              \* device calls issued by the launch, in order
    lparams,               \* the argument-pointer array handed to the kernel
    lret,                  \* status returned by the launch
    \* ---- GetModuleImage / Kernel::Launch
    kernels,               \* Kernel objects: descriptor, module_image_, alive
    module_images,         \* the process-wide map, as a set of entries
    ipc,                   \* position of each Kernel::Launch call
    icall,                 \* per call: kernel launched and the image obtained
    asmCalls,              \* assembler invocations, in order: key and result
    tuner,                 \* Autotune's position: phase and config index
    \* ---- ModuleImage::GetFunctionForContext
    shared_mem_bytes_,     \* the image's shared-memory requirement
    shared_optin,          \* device attribute: context -> opt-in maximum
    functions_,            \* context -> function handle (0: absent)
    modules_,              \* loaded native modules, as the contexts they are in
    fcalls,                \* number of finished get_function calls
    flast,                 \* the last finished call: context, result, push/pop
    fctxDepth,             \* depth of the driver's context stack
    \* ---- GetKernelCall
    kernel_calls,          \* the decode cache: payload -> call object (0: absent)
    dcalls,                \* number of finished get_call calls
    dlast,                 \* the last finished call: payload, status, object
    decodes,               \* payload -> number of decompress+decode runs
    nextObj,               \* identity of the next call object constructed
    \* ---- TritonKernelCall: the custom-call entry point
    epc,                   \* position of each entry-point call
    ecall,                 \* per call: payload, lookup status, object, launch status
    xla_status,            \* the failure slot (XlaCustomCallStatus* status) of each call
    eoob,                  \* some launch indexed configs_[0] of an empty list
    eobjs,                 \* per cached call object: autotune_once_, autotune_status_, module_image_
    \* ---- the device-context stack of one host thread
    ctx_stack,             \* the driver's stack of current contexts
    cframes,               \* the thread's active calls of Autotune / GetFunctionForContext
    creturn,               \* the last call that returned: depths before and after
    ccalls,                \* number of calls made
    \* ---- ZlibUncompress
    compressed,            \* the payload: its size and what its bytes decompress to
    dest_len,              \* uLongf dest_len
    data,                  \* std::string data, as its size
    zpc,                   \* "loop" | "done"
    zresult,               \* the returned status
    \* ---- ToProto / FromProto
    pobject,               \* a KernelCall or AutotunedKernelCall object
    pproto,                \* its encoding (ToProto)
    pdecoded,              \* the result of decoding the encoding (FromProto)
    ppc,                   \* "object" | "encoded" | "decoded"
    \* ---- the iteration count of Autotune
    itimes,                \* the phase-1 times the timer reports, per config
    ibest,                 \* float best
    ipos,                  \* position in the phase-1 loop (0: count computed)
    iiters                 \* int timed_iters

tuneVars == <<configs_, input_output_aliases_, autotune_once_, autotune_status_,
              buffers, mem, input_copies, pc, idx, best, timed_iters, p2time,
              p2count, autotuneCalls, erased, ret, launched, ctxDepth, oob,
              restores>>
launchVars == <<parameters_, lbuffers, lstream, lpc, devcalls, lparams, lret>>
imageVars == <<kernels, module_images, ipc, icall, asmCalls, tuner>>
funcVars == <<shared_mem_bytes_, shared_optin, functions_, modules_, fcalls,
              flast, fctxDepth>>
decodeVars == <<kernel_calls, dcalls, dlast, decodes, nextObj>>
entryVars == <<epc, ecall, xla_status, eoob, eobjs>>
contextVars == <<ctx_stack, cframes, creturn, ccalls>>
zlibVars == <<compressed, dest_len, data, zpc, zresult>>
protoVars == <<pobject, pproto, pdecoded, ppc>>
itersVars == <<itimes, ibest, ipos, iiters>>
moreVars == <<entryVars, contextVars, zlibVars, protoVars, itersVars>>
vars == <<tuneVars, launchVars, imageVars, funcVars, decodeVars, moreVars>>

\* The components a specification does not exercise stay in a fixed state.
TuneIdle ==
    /\ configs_ = <<>> /\ input_output_aliases_ = <<>>
    /\ autotune_once_ = "init" /\ autotune_status_ = "OK"
    /\ buffers = <<>> /\ mem = <<>> /\ input_copies = <<>>
    /\ pc = <<>> /\ idx = 0 /\ best = 0 /\ timed_iters = 0
    /\ p2time = <<>> /\ p2count = <<>> /\ autotuneCalls = 0
    /\ erased = FALSE /\ ret = <<>> /\ launched = <<>> /\ ctxDepth = <<>>
    /\ oob = FALSE /\ restores = <<>>
LaunchIdle ==
    /\ parameters_ = <<>> /\ lbuffers = <<>> /\ lstream = 0
    /\ lpc = [at |-> "done", i |-> 1, cursor |-> 1]
    /\ devcalls = <<>> /\ lparams = <<>> /\ lret = "none"
ImageIdle ==
    /\ kernels = <<>> /\ module_images = {} /\ ipc = <<>> /\ icall = <<>>
    /\ asmCalls = <<>> /\ tuner = <<>>
FuncIdle ==
    /\ shared_mem_bytes_ = 0 /\ shared_optin = <<>> /\ functions_ = <<>>
    /\ modules_ = <<>> /\ fcalls = 0 /\ flast = <<>> /\ fctxDepth = 0
DecodeIdle ==
    /\ kernel_calls = <<>> /\ dcalls = 0 /\ dlast = <<>> /\ decodes = <<>>
    /\ nextObj = 1
EntryIdle ==
    /\ epc = <<>> /\ ecall = <<>> /\ xla_status = <<>> /\ eoob = FALSE /\ eobjs = <<>>
ContextIdle ==
    /\ ctx_stack = <<>> /\ cframes = <<>> /\ creturn = <<>> /\ ccalls = 0
ZlibIdle ==
    /\ compressed = <<>> /\ dest_len = 0 /\ data = 0 /\ zpc = "done" /\ zresult = "none"
ProtoIdle ==
    /\ pobject = <<>> /\ pproto = <<>> /\ pdecoded = <<>> /\ ppc = "decoded"
ItersIdle ==
    /\ itimes = <<>> /\ ibest = 0 /\ ipos = 0 /\ iiters = 0
MoreIdle == EntryIdle /\ ContextIdle /\ ZlibIdle /\ ProtoIdle /\ ItersIdle

Min(a, b) == IF a < b THEN a ELSE b
Max(a, b) == IF a > b THEN a ELSE b


(***************************************************************************)
(* AutotunedKernelCall: Launch, Autotune, Benchmark                        *)
(***************************************************************************)
MaxConfigs == 3
MaxCalls == 2
Calls == 1..MaxCalls

kBenchmarkTimeMillis == 10
\* std::numeric_limits<float>::infinity(), above every time the timer reports
Infinity == 1000000
\* Elapsed times the device timer reports, in microseconds.
Times == {50, 4000, 20000}
NoTime == 0 - 1

Byte == 0..2
\* What a benchmarked or launched kernel leaves in the buffers it writes.
KernelBytes == <<0, 0>>
TuneAddrs == {16, 32}
InitMem == [a \in TuneAddrs |-> IF a = 16 THEN <<1, 2>> ELSE <<2, 1>>]
Alias(i, o, s) == [input_idx |-> i, output_idx |-> o, size |-> s]
AliasChoices ==
    { <<>>,
      <<Alias(0, 1, 2)>>,
      <<Alias(0, 1, 2), Alias(0, 1, 1)>> }
BufferChoices == { (0 :> 16) @@ (1 :> 16), (0 :> 16) @@ (1 :> 32) }

TuneInit ==
    \E n \in 0..MaxConfigs, al \in AliasChoices, bf \in BufferChoices :
        /\ configs_ = [i \in 1..n |-> i]
        /\ input_output_aliases_ = al
        /\ buffers = bf
        /\ autotune_once_ = "init"
        /\ autotune_status_ = "OK"
        /\ mem = InitMem
        /\ input_copies = <<>>
        /\ pc = [c \in Calls |-> "start"]
        /\ idx = 0
        /\ best = Infinity
        /\ timed_iters = 0
        /\ p2time = [i \in 1..n |-> NoTime]
        /\ p2count = [i \in 1..n |-> 0]
        /\ autotuneCalls = 0
        /\ erased = FALSE
        /\ ret = [c \in Calls |-> "none"]
        /\ launched = [c \in Calls |-> 0]
        /\ ctxDepth = [c \in Calls |-> 0]
        /\ oob = FALSE
        /\ restores = <<>>

\* absl::call_once: the callable runs only while the flag is in its initial
\* state; a caller passes the gate only once it is done.
OnceMayPassEarly(state) == state # "init"
OnceMayPass(state) == state = "done"
\* The flag after the callable has returned, whatever status it stored.
OnceAfterRetrying(status) == IF status = "OK" THEN "done" ELSE "init"
OnceAfter(status) == "done"

\* JAX_RETURN_IF_ERROR(autotune_status_)
ReturnIfErrorIgnored(status) == FALSE
ReturnIfError(status) == status # "OK"

\* if (t < best)
IsNewBestOrTie(t, b) == t <= b
IsNewBest(t, b) == t < b

\* std::swap(config, configs_[0]) on the config at position i
SwapToFront(cfgs, i) ==
    [k \in 1..Len(cfgs) |-> IF k = 1 THEN cfgs[i] ELSE IF k = i THEN cfgs[1] ELSE cfgs[k]]

\* configs_.erase(configs_.begin() + 1, configs_.end())
DiscardKeepTwo(cfgs) == SubSeq(cfgs, 1, Min(2, Len(cfgs)))
Discard(cfgs) == SubSeq(cfgs, 1, 1)

\* kBenchmarkTimeMillis / best in float, for a time b in microseconds: a
\* reported time of 0 gives +infinity.
Quotient(b) == IF b = 0 THEN Infinity ELSE (kBenchmarkTimeMillis * 1000) \div b
IntMax == 2147483647
IntMin == (0 - IntMax) - 1
\* static_cast<int>(q): the truncated value when int can hold it; otherwise
\* the conversion is undefined, and yields INT_MIN where the hardware
\* conversion reports the overflow that way and INT_MAX where it saturates.
StaticCastInt(q) == IF q = Infinity THEN {IntMin, IntMax} ELSE {q}
\* std::max(..., 1), then the cap at 100
Capped(raw) ==
    LET iters == Max(raw, 1)
    IN  IF iters > 100 THEN 100 ELSE Min(iters, 100)
\* The values timed_iters can get for a least phase-1 time b.
TimedIters(b) == { Capped(raw) : raw \in StaticCastInt(Quotient(b)) }

\* The kernel overwrites the output buffers of the aliasing triples (and so
\* the inputs that share their address).
OutAddrs == { buffers[input_output_aliases_[k].output_idx] :
                k \in 1..Len(input_output_aliases_) }
KernelWrote(m) == [a \in DOMAIN m |-> IF a \in OutAddrs THEN KernelBytes ELSE m[a]]

\* The snapshot loop over the first k triples: input_copies[input_idx] is
\* (re)assigned for every triple whose two pointers are equal.
RECURSIVE Snapshots(_)
Snapshots(k) ==
    IF k = 0 THEN <<>>
    ELSE LET a == input_output_aliases_[k]
             prev == Snapshots(k - 1)
         IN  IF buffers[a.input_idx] = buffers[a.output_idx]
             THEN (a.input_idx :> SubSeq(mem[buffers[a.input_idx]], 1, a.size)) @@ prev
             ELSE prev
SnapshotTriples ==
    { k \in 1..Len(input_output_aliases_) :
        buffers[input_output_aliases_[k].input_idx]
          = buffers[input_output_aliases_[k].output_idx] }

\* input_copies[input_idx]: operator[] default-constructs an empty vector for
\* an index that has no snapshot.
HostCopy(copies, i) == IF i \in DOMAIN copies THEN copies[i] ELSE <<>>
\* cuMemcpyHtoDAsync(dst, src.data(), size): the bytes read past the end of
\* the host vector are whatever the host memory holds there (g).
CopyHtoD(region, src, size, g) ==
    [j \in 1..Len(region) |->
        IF j > size THEN region[j]
        ELSE IF j <= Len(src) THEN src[j] ELSE g[j]]
\* The restore loop over the first k triples.
RECURSIVE Restored(_, _, _)
Restored(m, k, g) ==
    IF k = 0 THEN m
    ELSE LET a == input_output_aliases_[k]
             prev == Restored(m, k - 1, g)
             dst == buffers[a.input_idx]
         IN  [prev EXCEPT ![dst] =
                 CopyHtoD(prev[dst], HostCopy(input_copies, a.input_idx), a.size, g)]

\* Autotune returns: the scoped cleanup pops the pushed context, the status
\* is stored and the one-shot flag is released.
TuneReturn(c, status, pushed) ==
    /\ autotune_status_' = status
    /\ autotune_once_' = OnceAfter(status)
    /\ pc' = [pc EXCEPT ![c] = IF OnceAfter(status) = "done" THEN "after_gate" ELSE "gate"]
    /\ ctxDepth' = [ctxDepth EXCEPT ![c] = IF pushed THEN @ - 1 ELSE @]
    /\ input_copies' = <<>>

LaunchEnter(c) ==
    /\ pc[c] = "start"
    /\ pc' = [pc EXCEPT ![c] = "gate"]
    /\ UNCHANGED <<configs_, input_output_aliases_, autotune_once_, autotune_status_,
                   buffers, mem, input_copies, idx, best, timed_iters, p2time,
                   p2count, autotuneCalls, erased, ret, launched, ctxDepth, oob>>

\* The first caller runs the callable: Autotune when there are several
\* configs, nothing otherwise.
CallOnceRun(c) ==
    /\ pc[c] = "gate"
    /\ autotune_once_ = "init"
    /\ IF Len(configs_) > 1
       THEN /\ autotune_once_' = "running"
            /\ pc' = [pc EXCEPT ![c] = "tune_ctx"]
            /\ autotuneCalls' = autotuneCalls + 1
       ELSE /\ autotune_once_' = OnceAfter("OK")
            /\ pc' = [pc EXCEPT ![c] = "after_gate"]
            /\ UNCHANGED autotuneCalls
    /\ UNCHANGED <<configs_, input_output_aliases_, autotune_status_, buffers, mem,
                   input_copies, idx, best, timed_iters, p2time, p2count, erased,
                   ret, launched, ctxDepth, oob>>

CallOncePass(c) ==
    /\ pc[c] = "gate"
    /\ OnceMayPass(autotune_once_)
    /\ pc' = [pc EXCEPT ![c] = "after_gate"]
    /\ UNCHANGED <<configs_, input_output_aliases_, autotune_once_, autotune_status_,
                   buffers, mem, input_copies, idx, best, timed_iters, p2time,
                   p2count, autotuneCalls, erased, ret, launched, ctxDepth, oob>>

\* cuStreamGetCtx, cuCtxPushCurrent
AutotuneContext(c) ==
    /\ pc[c] = "tune_ctx"
    /\ \E o \in {"ok", "stream_ctx_error", "ctx_push_error"} :
         IF o = "ok"
         THEN /\ ctxDepth' = [ctxDepth EXCEPT ![c] = @ + 1]
              /\ pc' = [pc EXCEPT ![c] = "tune_snapshot"]
              /\ UNCHANGED <<autotune_status_, autotune_once_, input_copies>>
         ELSE TuneReturn(c, o, FALSE)
    /\ UNCHANGED <<configs_, input_output_aliases_, buffers, mem, idx, best,
                   timed_iters, p2time, p2count, autotuneCalls, erased, ret,
                   launched, oob>>

AutotuneSnapshot(c) ==
    /\ pc[c] = "tune_snapshot"
    /\ \E f \in {0} \cup SnapshotTriples :
         IF f = 0
         THEN /\ input_copies' = Snapshots(Len(input_output_aliases_))
              /\ pc' = [pc EXCEPT ![c] = "tune_phase1"]
              /\ idx' = 1
              /\ best' = Infinity
              /\ UNCHANGED <<autotune_status_, autotune_once_, ctxDepth>>
         ELSE /\ TuneReturn(c, "memcpy_dtoh_error", TRUE)
              /\ UNCHANGED <<idx, best>>
    /\ UNCHANGED <<configs_, input_output_aliases_, buffers, mem, timed_iters,
                   p2time, p2count, autotuneCalls, erased, ret, launched, oob>>

\* Benchmark(stream, config.kernel_call, buffers, n): a driver or launch
\* failure at any of its steps, or the elapsed time.
BenchmarkFailed == 0 - 2
BenchmarkOutcomes == Times \cup {BenchmarkFailed}

AutotunePhase1(c) ==
    /\ pc[c] = "tune_phase1"
    /\ \E o \in BenchmarkOutcomes :
         IF o \in Times
         THEN /\ best' = Min(best, o)
              /\ mem' = KernelWrote(mem)
              /\ idx' = idx + 1
              /\ pc' = [pc EXCEPT ![c] = IF idx = Len(configs_) THEN "tune_iters" ELSE @]
              /\ UNCHANGED <<autotune_status_, autotune_once_, ctxDepth, input_copies>>
         ELSE /\ TuneReturn(c, "benchmark_error", TRUE)
              /\ \E ran \in BOOLEAN : mem' = IF ran THEN KernelWrote(mem) ELSE mem
              /\ UNCHANGED <<idx, best>>
    /\ UNCHANGED <<configs_, input_output_aliases_, buffers, timed_iters, p2time,
                   p2count, autotuneCalls, erased, ret, launched, oob>>

AutotuneIters(c) ==
    /\ pc[c] = "tune_iters"
    /\ timed_iters' \in TimedIters(best)
    /\ best' = Infinity
    /\ idx' = 1
    /\ pc' = [pc EXCEPT ![c] = "tune_phase2"]
    /\ UNCHANGED <<configs_, input_output_aliases_, autotune_once_, autotune_status_,
                   buffers, mem, input_copies, p2time, p2count, autotuneCalls,
                   erased, ret, launched, ctxDepth, oob>>

AutotunePhase2(c) ==
    /\ pc[c] = "tune_phase2"
    /\ \E o \in BenchmarkOutcomes :
         IF o \in Times
         THEN /\ p2time' = [p2time EXCEPT ![configs_[idx]] = o]
              /\ p2count' = [p2count EXCEPT ![configs_[idx]] = @ + 1]
              /\ IF IsNewBest(o, best)
                 THEN /\ best' = o
                      /\ configs_' = SwapToFront(configs_, idx)
                 ELSE UNCHANGED <<best, configs_>>
              /\ mem' = KernelWrote(mem)
              /\ idx' = idx + 1
              /\ pc' = [pc EXCEPT ![c] = IF idx = Len(configs_) THEN "tune_erase" ELSE @]
              /\ UNCHANGED <<autotune_status_, autotune_once_, ctxDepth, input_copies>>
         ELSE /\ TuneReturn(c, "benchmark_error", TRUE)
              /\ \E ran \in BOOLEAN : mem' = IF ran THEN KernelWrote(mem) ELSE mem
              /\ UNCHANGED <<idx, best, configs_, p2time, p2count>>
    /\ UNCHANGED <<input_output_aliases_, buffers, timed_iters, autotuneCalls,
                   erased, ret, launched, oob>>

AutotuneErase(c) ==
    /\ pc[c] = "tune_erase"
    /\ configs_' = Discard(configs_)
    /\ erased' = TRUE
    /\ pc' = [pc EXCEPT ![c] = "tune_restore"]
    /\ UNCHANGED <<input_output_aliases_, autotune_once_, autotune_status_, buffers,
                   mem, input_copies, idx, best, timed_iters, p2time, p2count,
                   autotuneCalls, ret, launched, ctxDepth, oob>>

\* The cuMemcpyHtoDAsync calls of the restore loop over the first k triples:
\* for each, the host vector it reads (input_copies[input_idx]) and whether
\* the snapshot loop took a snapshot for that triple.
RestoreCopies(k) ==
    [j \in 1..k |->
        LET a == input_output_aliases_[j]
        IN  [triple |-> j, input_idx |-> a.input_idx, size |-> a.size,
             host_size |-> Len(HostCopy(input_copies, a.input_idx)),
             snapshot |-> j \in SnapshotTriples]]

\* The restore loop (failing at triple f, or f = 0 for no failure), then
\* cuStreamSynchronize.
AutotuneRestore(c) ==
    /\ pc[c] = "tune_restore"
    /\ LET n == Len(input_output_aliases_)
       IN \E f \in 0..n, g \in [1..2 -> Byte], sync \in {"OK", "sync_error"} :
            /\ f # 0 => sync = "OK"
            /\ mem' = Restored(mem, IF f = 0 THEN n ELSE f - 1, g)
            /\ restores' = RestoreCopies(IF f = 0 THEN n ELSE f)
            /\ TuneReturn(c, IF f # 0 THEN "memcpy_htod_error" ELSE sync, TRUE)
    /\ UNCHANGED <<configs_, input_output_aliases_, buffers, idx, best, timed_iters,
                   p2time, p2count, autotuneCalls, erased, ret, launched, oob>>

\* After the gate: return the stored failure, else launch configs_[0].
LaunchAfterGate(c) ==
    /\ pc[c] = "after_gate"
    /\ pc' = [pc EXCEPT ![c] = "done"]
    /\ IF ReturnIfError(autotune_status_)
       THEN /\ ret' = [ret EXCEPT ![c] = autotune_status_]
            /\ UNCHANGED <<launched, mem, oob>>
       ELSE IF Len(configs_) = 0
       THEN \* configs_[0] of an empty vector: undefined behaviour
            /\ oob' = TRUE
            /\ \E r \in {"OK", "launch_error", "crash"} : ret' = [ret EXCEPT ![c] = r]
            /\ UNCHANGED <<launched, mem>>
       ELSE /\ launched' = [launched EXCEPT ![c] = configs_[1]]
            /\ \E r \in {"OK", "launch_error"} :
                 /\ ret' = [ret EXCEPT ![c] = r]
                 /\ mem' = IF r = "OK" THEN KernelWrote(mem) ELSE mem
            /\ UNCHANGED oob
    /\ UNCHANGED <<configs_, input_output_aliases_, autotune_once_, autotune_status_,
                   buffers, input_copies, idx, best, timed_iters, p2time, p2count,
                   autotuneCalls, erased, ctxDepth>>

TuneFrame == UNCHANGED <<launchVars, imageVars, funcVars, decodeVars, moreVars>>
TuneNext ==
    \E c \in Calls :
        \/ LaunchEnter(c) /\ UNCHANGED restores /\ TuneFrame
        \/ CallOnceRun(c) /\ UNCHANGED restores /\ TuneFrame
        \/ CallOncePass(c) /\ UNCHANGED restores /\ TuneFrame
        \/ AutotuneContext(c) /\ UNCHANGED restores /\ TuneFrame
        \/ AutotuneSnapshot(c) /\ UNCHANGED restores /\ TuneFrame
        \/ AutotunePhase1(c) /\ UNCHANGED restores /\ TuneFrame
        \/ AutotuneIters(c) /\ UNCHANGED restores /\ TuneFrame
        \/ AutotunePhase2(c) /\ UNCHANGED restores /\ TuneFrame
        \/ AutotuneErase(c) /\ UNCHANGED restores /\ TuneFrame
        \/ AutotuneRestore(c) /\ TuneFrame
        \/ LaunchAfterGate(c) /\ UNCHANGED restores /\ TuneFrame

InitTune == TuneInit /\ LaunchIdle /\ ImageIdle /\ FuncIdle /\ DecodeIdle /\ MoreIdle
SpecTune == InitTune /\ [][TuneNext]_vars


(***************************************************************************)
(* Properties of the autotuner (checked under SpecTune)                    *)
(***************************************************************************)
OrigCount == Len(p2count)
TuneStates == {"tune_ctx", "tune_snapshot", "tune_phase1", "tune_iters",
               "tune_phase2", "tune_erase", "tune_restore"}
PastGate(c) == pc[c] \in TuneStates \cup {"after_gate", "done"}
\* w has the least phase-2 time, and is the earliest config with that time.
IsWinner(w) ==
    \A i \in 1..OrigCount :
        \/ p2time[w] < p2time[i]
        \/ p2time[w] = p2time[i] /\ w <= i

\* C1: with at least 2 configs, over any number of sequential or concurrent
\* launches, Autotune is entered exactly once: never twice, and once as soon
\* as any launch is past the one-shot gate, whether the run ended in success
\* or in failure.
C1_AutotuneExactlyOnce ==
    /\ autotuneCalls <= 1
    /\ (OrigCount >= 2 /\ \E c \in Calls : PastGate(c)) => autotuneCalls = 1
    /\ Cardinality({c \in Calls : pc[c] \in TuneStates}) <= 1
C1_Witness ==
    /\ OrigCount >= 2
    /\ \A c \in Calls : pc[c] = "done"
    /\ autotune_status_ = "benchmark_error"
    /\ autotuneCalls = 1

\* C2: after a successful tuning pass over n >= 2 configs, exactly one config
\* remains, it is the one with the least phase-2 time (the earliest in the
\* original order among equal least times), and every original config was
\* measured exactly once in phase 2; no config is ever measured twice.
C2_WinnerIsEarliestMinimum ==
    /\ \A i \in 1..OrigCount : p2count[i] <= 1
    /\ (autotune_once_ = "done" /\ autotune_status_ = "OK" /\ OrigCount >= 2) =>
          /\ Len(configs_) = 1
          /\ \A i \in 1..OrigCount : p2count[i] = 1 /\ p2time[i] \in Times
          /\ IsWinner(configs_[1])
C2_Witness ==
    /\ autotune_once_ = "done" /\ autotune_status_ = "OK"
    /\ OrigCount = 3
    /\ configs_ = <<2>>
    /\ p2time[2] = p2time[3] /\ p2time[2] < p2time[1]

\* C3 as stated: once the one-shot step has executed, whether Autotune
\* succeeded or failed at any of its steps, an instance that started with at
\* least one config holds exactly one Config.
C3_Original ==
    (autotune_once_ = "done" /\ OrigCount >= 1) => Len(configs_) = 1
\* C3 amended: once the one-shot step has executed, the list holds exactly
\* one Config (the winner) if Autotune reached its discard step or the
\* instance started with one config; if Autotune failed before its discard
\* step the list still holds all its original configs, in some order; in
\* either case it is the same at every later launch.
C3_Amended ==
    autotune_once_ = "done" =>
        /\ erased => OrigCount >= 2 /\ Len(configs_) = 1 /\ IsWinner(configs_[1])
        /\ ~erased => Len(configs_) = OrigCount
                      /\ {configs_[k] : k \in 1..Len(configs_)} = 1..OrigCount
        /\ (erased \/ OrigCount = 1) <=> Len(configs_) = 1
        /\ (autotune_status_ = "OK" /\ OrigCount >= 2) => erased
C3_Witness ==
    /\ autotune_once_ = "done"
    /\ OrigCount = 3 /\ erased /\ Len(configs_) = 1
    /\ autotune_status_ = "sync_error"
    /\ \A c \in Calls : pc[c] = "done"

\* C4: for every aliasing triple, after a successful autotuning pass and
\* before any later launch, the size bytes at the input buffer's address are
\* what they were before the pass, whether or not the input and output
\* pointers are the same address.
C4_InputsRestored ==
    (autotune_once_ = "done" /\ autotune_status_ = "OK" /\ autotuneCalls = 1
        /\ \A c \in Calls : pc[c] # "done") =>
      \A k \in 1..Len(input_output_aliases_) :
        LET a == input_output_aliases_[k]
        IN  SubSeq(mem[buffers[a.input_idx]], 1, a.size)
              = SubSeq(InitMem[buffers[a.input_idx]], 1, a.size)

\* C5: if the tuning step failed, every finished launch returned that same
\* stored failure and launched no kernel after the gate, and the benchmarking
\* is not running and was run once.
C5_FailureIsCached ==
    (autotune_once_ = "done" /\ autotune_status_ # "OK") =>
        /\ \A c \in Calls :
             pc[c] = "done" => ret[c] = autotune_status_ /\ launched[c] = 0
        /\ \A c \in Calls : pc[c] \notin TuneStates
        /\ autotuneCalls = 1
C5_Witness ==
    /\ autotune_once_ = "done" /\ autotune_status_ = "memcpy_dtoh_error"
    /\ \A c \in Calls : pc[c] = "done" /\ ret[c] = "memcpy_dtoh_error"

\* While a pass is in progress exactly one call is inside Autotune and no
\* other call is past the gate; no call reads the status or the list before
\* the step has finished.
GateBlocks ==
    /\ autotune_once_ = "running" =>
          /\ Cardinality({c \in Calls : pc[c] \in TuneStates}) = 1
          /\ \A c \in Calls : pc[c] \in TuneStates \cup {"start", "gate"}
    /\ \A c \in Calls : pc[c] \in {"after_gate", "done"} => autotune_once_ = "done"
\* C6 as stated: callers block while the pass is in progress, and after it
\* every caller past the gate finds one config and the final status, a
\* successful launch being a launch of the winning config.
C6_Original ==
    /\ GateBlocks
    /\ \A c \in Calls :
         (OrigCount >= 2 /\ pc[c] \in {"after_gate", "done"}) => Len(configs_) = 1
    /\ \A c \in Calls :
         (OrigCount >= 2 /\ launched[c] # 0) =>
             autotune_status_ = "OK" /\ IsWinner(launched[c])
\* C6 amended: callers block while the pass is in progress; after it every
\* caller past the gate finds the final status, and finds exactly one config
\* whenever that status is OK (or the pass got as far as its discard step);
\* a launch after the gate is a launch of the winning config.
C6_Amended ==
    /\ GateBlocks
    /\ \A c \in Calls :
         (OrigCount >= 2 /\ pc[c] \in {"after_gate", "done"}
            /\ (autotune_status_ = "OK" \/ erased)) => Len(configs_) = 1
    /\ \A c \in Calls :
         (OrigCount >= 2 /\ pc[c] = "done" /\ autotune_status_ # "OK") =>
             ret[c] = autotune_status_
    /\ \A c \in Calls :
         (OrigCount >= 2 /\ launched[c] # 0) =>
             /\ autotune_status_ = "OK"
             /\ configs_ = <<launched[c]>>
             /\ IsWinner(launched[c])
C6_Witness ==
    /\ autotune_once_ = "running"
    /\ \E c, d \in Calls : pc[c] = "tune_phase2" /\ pc[d] = "gate"

\* C19: every restore copy of Autotune reads a host snapshot that the
\* snapshot step took for that same aliasing triple and that holds exactly
\* the triple's size bytes; none reads a missing snapshot (pointers that
\* differed) or one of another size (two triples on one input index).
C19_RestoreReadsItsSnapshot ==
    \A j \in 1..Len(restores) :
        restores[j].snapshot /\ restores[j].host_size = restores[j].size


(***************************************************************************)
(* KernelCall::Launch: parameter marshaling                                *)
(***************************************************************************)
MaxParams == 3
Array(z, d) == [kind |-> "array", bytes_to_zero |-> z, ptr_divisibility |-> d]
Scalar(t, v) == [kind |-> t, value |-> v]
ParamChoices == { Array(0, 0), Array(4, 0), Array(0, 16), Array(4, 16),
                  Scalar("i32", 7), Scalar("bool", 1) }
LaunchAddrs == {32, 40}
Streams == {1, 2}
IsArray(p) == p.kind = "array"
RECURSIVE NumArrays(_)
NumArrays(ps) ==
    IF ps = <<>> THEN 0
    ELSE (IF IsArray(ps[Len(ps)]) THEN 1 ELSE 0) + NumArrays(SubSeq(ps, 1, Len(ps) - 1))
ParamLists == UNION { [1..n -> ParamChoices] : n \in 0..MaxParams }

\* A KernelCall and the buffer list of one launch; the caller supplies one
\* buffer per Array parameter.  li is the loop index, cursor the position of
\* `buffers++`, both kept in lpc.
LaunchInit ==
    \E ps \in ParamLists, stream \in Streams :
      \E bs \in [1..NumArrays(ps) -> LaunchAddrs] :
        /\ parameters_ = ps
        /\ lbuffers = bs
        /\ lstream = stream
        /\ lpc = [at |-> "loop", i |-> 1, cursor |-> 1]
        /\ devcalls = <<>>
        /\ lparams = <<>>
        /\ lret = "none"

\* (array.ptr_divisibility != 0) && (cu_ptr % array.ptr_divisibility != 0)
Misaligned(ptr, d) == d # 0 /\ ptr % d # 0

\* void*& ptr = *(buffers++): the cursor moves on for an Array parameter only
NextBufferStuck(p, cursor) == cursor
NextBuffer(p, cursor) == IF IsArray(p) THEN cursor + 1 ELSE cursor

\* if (array.bytes_to_zero > 0)
ZeroFillAlways(bytes_to_zero) == TRUE
ZeroFill(bytes_to_zero) == bytes_to_zero > 0

LaunchDone(status) ==
    /\ lret' = status
    /\ lpc' = [lpc EXCEPT !.at = "done"]

\* One iteration of the parameter loop; past the last parameter the loop
\* ends and kernel_.Launch is next.
LaunchParam ==
    /\ lpc.at = "loop"
    /\ lpc.i <= Len(parameters_)
    /\ LET p == parameters_[lpc.i]
           ptr == lbuffers[lpc.cursor]
           next == [at |-> IF lpc.i = Len(parameters_) THEN "kernel" ELSE "loop",
                    i |-> lpc.i + 1,
                    cursor |-> NextBuffer(p, lpc.cursor)]
       IN  IF ~IsArray(p)
           THEN /\ lparams' = Append(lparams, [to |-> "value", of |-> lpc.i])
                /\ lpc' = next
                /\ UNCHANGED <<devcalls, lret>>
           ELSE IF Misaligned(ptr, p.ptr_divisibility)
           THEN /\ LaunchDone("InvalidArgument")
                /\ UNCHANGED <<devcalls, lparams>>
           ELSE IF ZeroFill(p.bytes_to_zero)
           THEN /\ devcalls' = Append(devcalls,
                       [op |-> "memset", addr |-> ptr, count |-> p.bytes_to_zero,
                        stream |-> lstream, param |-> lpc.i])
                /\ \E ok \in BOOLEAN :
                     IF ok
                     THEN /\ lparams' = Append(lparams, [to |-> "buffer", of |-> lpc.cursor])
                          /\ lpc' = next
                          /\ UNCHANGED lret
                     ELSE /\ LaunchDone("memset_error")
                          /\ UNCHANGED lparams
           ELSE /\ lparams' = Append(lparams, [to |-> "buffer", of |-> lpc.cursor])
                /\ lpc' = next
                /\ UNCHANGED <<devcalls, lret>>
    /\ UNCHANGED <<parameters_, lbuffers, lstream>>

\* A launch without parameters skips the loop.
LaunchNoParams ==
    /\ lpc.at = "loop"
    /\ Len(parameters_) = 0
    /\ lpc' = [lpc EXCEPT !.at = "kernel"]
    /\ UNCHANGED <<parameters_, lbuffers, lstream, devcalls, lparams, lret>>

\* kernel_.Launch(stream, grid_, params.data()): it fails before the device
\* launch (image, context or function lookup) or ends in cuLaunchKernel.
LaunchKernel ==
    /\ lpc.at = "kernel"
    /\ \E o \in {"OK", "launch_error", "kernel_setup_error"} :
         /\ devcalls' = IF o = "kernel_setup_error" THEN devcalls
                        ELSE Append(devcalls, [op |-> "launch", args |-> lparams,
                                               stream |-> lstream])
         /\ LaunchDone(o)
    /\ UNCHANGED <<parameters_, lbuffers, lstream, lparams>>

LaunchFrame == UNCHANGED <<tuneVars, imageVars, funcVars, decodeVars, moreVars>>
LaunchNext ==
    \/ LaunchParam /\ LaunchFrame
    \/ LaunchNoParams /\ LaunchFrame
    \/ LaunchKernel /\ LaunchFrame

InitLaunch == LaunchInit /\ TuneIdle /\ ImageIdle /\ FuncIdle /\ DecodeIdle /\ MoreIdle
SpecLaunch == InitLaunch /\ [][LaunchNext]_vars

\* C7: a launch that fails with InvalidArgumentError because some Array
\* parameter's buffer is not a multiple of its nonzero divisor has issued no
\* device call at all: no memset for any parameter and no kernel launch.
C7_NoDeviceCallOnMisalignment ==
    lret = "InvalidArgument" => devcalls = <<>>

\* The buffer-list entry of the Array parameter at position k: the number of
\* Array parameters up to and including it.
BufferOf(k) == NumArrays(SubSeq(parameters_, 1, k))
\* The device launch has been issued.
KernelIssued == devcalls # <<>> /\ devcalls[Len(devcalls)].op = "launch"

\* C16: the j-th Array parameter in declaration order is bound to the j-th
\* entry of the buffer list and scalars consume none; the argument-pointer
\* array handed to the kernel launch has one slot per parameter in parameter
\* order, an Array's slot pointing at its buffer-pointer variable and a
\* scalar's at its stored value.
C16_ArgumentBinding ==
    /\ \A k \in 1..Len(lparams) :
         lparams[k] = IF IsArray(parameters_[k]) THEN [to |-> "buffer", of |-> BufferOf(k)]
                      ELSE [to |-> "value", of |-> k]
    /\ \A d \in 1..Len(devcalls) :
         devcalls[d].op = "memset" => devcalls[d].addr = lbuffers[BufferOf(devcalls[d].param)]
    /\ lpc.at = "kernel" => Len(lparams) = Len(parameters_)
    /\ KernelIssued =>
         /\ Len(devcalls[Len(devcalls)].args) = Len(parameters_)
         /\ devcalls[Len(devcalls)].args = lparams
C16_Witness ==
    /\ KernelIssued
    /\ Len(parameters_) = 3
    /\ ~IsArray(parameters_[1]) /\ IsArray(parameters_[2]) /\ IsArray(parameters_[3])
    /\ lbuffers = <<32, 40>>
    /\ devcalls[Len(devcalls)].args =
          <<[to |-> "value", of |-> 1], [to |-> "buffer", of |-> 1], [to |-> "buffer", of |-> 2]>>

\* The memsets a complete pass over the first k parameters issues, in order.
RECURSIVE ExpectedMemsets(_)
ExpectedMemsets(k) ==
    IF k = 0 THEN <<>>
    ELSE LET p == parameters_[k]
             before == ExpectedMemsets(k - 1)
         IN  IF IsArray(p) /\ p.bytes_to_zero > 0
             THEN Append(before, [op |-> "memset", addr |-> lbuffers[BufferOf(k)],
                                  count |-> p.bytes_to_zero, stream |-> lstream,
                                  param |-> k])
             ELSE before
\* C17: in a launch that reaches the kernel launch, every Array parameter
\* with zero-fill count n > 0 got exactly one asynchronous memset of n bytes
\* at its buffer address, on the launch's stream, before the kernel launch on
\* that stream; Array parameters with count 0 and scalars got none.
C17_MemsetBeforeLaunch ==
    /\ \A d \in 1..Len(devcalls) : devcalls[d].op = "launch" => d = Len(devcalls)
    /\ KernelIssued =>
         /\ SubSeq(devcalls, 1, Len(devcalls) - 1) = ExpectedMemsets(Len(parameters_))
         /\ devcalls[Len(devcalls)].stream = lstream
C17_Witness ==
    /\ KernelIssued /\ lret = "OK"
    /\ parameters_ = <<Array(4, 16), Scalar("i32", 7), Array(0, 0)>>
    /\ lbuffers = <<32, 40>>
    /\ lstream = 2
    /\ Len(devcalls) = 2
    /\ devcalls[1] = [op |-> "memset", addr |-> 32, count |-> 4, stream |-> 2, param |-> 1]



(***************************************************************************)
(* ModuleImage::GetFunctionForContext (one ModuleImage)                    *)
(***************************************************************************)
MaxFuncCalls == 3
Contexts == {1, 2}
kMaxStaticSharedMemBytes == 49152
SharedMemChoices == {1024, 49152, 65536, 200000}
\* CU_DEVICE_ATTRIBUTE_MAX_SHARED_MEMORY_PER_BLOCK_OPTIN of a context's device
OptinChoices == {49152, 101376}
NoFunction == 0
\* The driver calls of the miss path, in program order; each can fail.
DriverCalls == <<"cuCtxPushCurrent", "cuModuleLoadData", "cuModuleGetFunction",
                 "cuCtxGetDevice", "cuDeviceGetAttribute_optin",
                 "cuFuncSetCacheConfig", "cuDeviceGetAttribute_total",
                 "cuFuncGetAttribute", "cuFuncSetAttribute">>
Position(name) == CHOOSE k \in 1..Len(DriverCalls) : DriverCalls[k] = name

FuncInit ==
    \E smem \in SharedMemChoices, optin \in [Contexts -> OptinChoices] :
        /\ shared_mem_bytes_ = smem
        /\ shared_optin = optin
        /\ functions_ = [x \in Contexts |-> NoFunction]
        /\ modules_ = <<>>
        /\ fcalls = 0
        /\ flast = [context |-> 0, result |-> "none", function |-> NoFunction,
                    pushed |-> FALSE, popped |-> FALSE]
        /\ fctxDepth = 0

\* The driver calls the miss path makes for `context` when none fails, in
\* order: it stops after function resolution when the requirement is within
\* the static limit, and after the opt-in query when the requirement exceeds
\* the device maximum or the maximum does not exceed the static limit.
CallsMade(context) ==
    IF shared_mem_bytes_ <= kMaxStaticSharedMemBytes THEN 3
    ELSE IF shared_mem_bytes_ > shared_optin[context] THEN 5
    ELSE IF shared_optin[context] > kMaxStaticSharedMemBytes THEN 9
    ELSE 5

\* if (shared_mem_bytes_ > shared_optin)
ExceedsDevice(context) == shared_mem_bytes_ > shared_optin[context]

\* The cache lookup at the head of the function.
Cached(context) == functions_[context] # NoFunction

\* One call, under mutex_.  f is the first driver call that fails (0: none
\* fails); a failure past the calls this invocation makes changes nothing.
GetFunctionForContext(context, f) ==
    LET made == CallsMade(context)
        fail == IF f > made THEN 0 ELSE f
        loaded == fail = 0 \/ fail > Position("cuModuleLoadData")
        resolved == fail = 0 \/ fail > Position("cuModuleGetFunction")
        pushed == fail # Position("cuCtxPushCurrent")
        handle == Len(modules_) + 1
        result == IF fail # 0 THEN DriverCalls[fail]
                  ELSE IF shared_mem_bytes_ <= kMaxStaticSharedMemBytes THEN "function"
                  ELSE IF ExceedsDevice(context) THEN "shared_mem_exceeds"
                  ELSE "function"
    IN  IF Cached(context)
        THEN /\ flast' = [context |-> context, result |-> "function",
                          function |-> functions_[context],
                          pushed |-> FALSE, popped |-> FALSE]
             /\ UNCHANGED <<functions_, modules_, fctxDepth>>
        ELSE /\ modules_' = IF loaded THEN Append(modules_, context) ELSE modules_
             /\ functions_' = IF resolved THEN [functions_ EXCEPT ![context] = handle]
                              ELSE functions_
             /\ flast' = [context |-> context, result |-> result,
                          function |-> IF result = "function" THEN handle ELSE NoFunction,
                          pushed |-> pushed, popped |-> pushed]
             \* the scoped cleanup pops exactly when the push succeeded
             /\ fctxDepth' = LET afterPush == fctxDepth + (IF pushed THEN 1 ELSE 0)
                              IN  IF pushed THEN afterPush - 1 ELSE afterPush

GetFunction ==
    /\ fcalls < MaxFuncCalls
    /\ \E context \in Contexts, f \in 0..Len(DriverCalls) :
         GetFunctionForContext(context, f)
    /\ fcalls' = fcalls + 1
    /\ UNCHANGED <<shared_mem_bytes_, shared_optin>>

FuncFrame == UNCHANGED <<tuneVars, launchVars, imageVars, decodeVars, moreVars>>
FuncNext == GetFunction /\ FuncFrame

InitFunc == FuncInit /\ TuneIdle /\ LaunchIdle /\ ImageIdle /\ DecodeIdle /\ MoreIdle
SpecFunc == InitFunc /\ [][FuncNext]_vars

\* C9: when the image's shared-memory requirement exceeds both the static
\* limit and the opt-in maximum of a context's device, no get_function call
\* for that context, the first or a repeated one, returns a function handle.
C9_ExceedingNeverReturnsFunction ==
    (fcalls > 0 /\ shared_mem_bytes_ > kMaxStaticSharedMemBytes
       /\ shared_mem_bytes_ > shared_optin[flast.context]) =>
        flast.result # "function"

\* The native modules loaded and retained (in modules_) for a context.
ModulesOf(context) == { i \in 1..Len(modules_) : modules_[i] = context }
OneModulePerContext == \A x \in Contexts : Cardinality(ModulesOf(x)) <= 1
HandleNeverChanges ==
    \A x \in Contexts : Cached(x) => functions_'[x] = functions_[x]
\* C21: over any sequence of get_function calls, failing ones included, at
\* most one native module is loaded and retained for each context, and the
\* handle the context-to-function map holds for a context never changes
\* once inserted.
C21_OneModulePerContext ==
    [](OneModulePerContext) /\ [][HandleNeverChanges]_vars


(***************************************************************************)
(* GetKernelCall: the decode cache                                         *)
(***************************************************************************)
MaxDecodeCalls == 3
\* Opaque payloads, by what their bytes hold: whether zlib can uncompress
\* them, whether the result parses as a TritonAnyKernelCall, which variant
\* is set, how many configs an autotuned call lists, and whether every
\* parameter has a known value case.
Payload(z, p, k, n, t) == [zlib |-> z, parses |-> p, variant |-> k, configs |-> n, tags |-> t]
Payloads ==
    << Payload("ok", TRUE, "kernel_call", 0, "known"),
       Payload("ok", TRUE, "autotuned_kernel_call", 2, "known"),
       Payload("ok", TRUE, "autotuned_kernel_call", 0, "known"),
       Payload("ok", TRUE, "kernel_call", 0, "unset"),
       Payload("ok", TRUE, "autotuned_kernel_call", 2, "unset"),
       Payload("ok", TRUE, "none", 0, "known"),
       Payload("ok", FALSE, "none", 0, "known"),
       Payload("data_error", FALSE, "none", 0, "known") >>
PayloadIds == 1..Len(Payloads)
NoObject == 0

\* The status of decompressing and decoding a payload (lines 109-126).
Decode(b) ==
    IF b.zlib # "ok" THEN "Failed to uncompress opaque data."
    ELSE IF ~b.parses THEN "Failed to parse serialized data."
    ELSE IF b.variant = "none" THEN "Unknown kernel call type."
    ELSE IF b.tags # "known" THEN "Unknown scalar parameter type."
    ELSE "OK"

DecodeInit ==
    /\ kernel_calls = [p \in PayloadIds |-> NoObject]
    /\ dcalls = 0
    /\ dlast = [payload |-> 0, status |-> "none", object |-> NoObject]
    /\ decodes = [p \in PayloadIds |-> 0]
    /\ nextObj = 1

\* kernel_calls.find(opaque) != kernel_calls.end()
CacheHitNever(p) == FALSE
CacheHit(p) == kernel_calls[p] # NoObject

\* One call, under the mutex.
GetKernelCall(p) ==
    IF CacheHit(p)
    THEN /\ dlast' = [payload |-> p, status |-> "OK", object |-> kernel_calls[p]]
         /\ UNCHANGED <<kernel_calls, decodes, nextObj>>
    ELSE /\ decodes' = [decodes EXCEPT ![p] = @ + 1]
         /\ IF Decode(Payloads[p]) = "OK"
            THEN /\ kernel_calls' = [kernel_calls EXCEPT ![p] = nextObj]
                 /\ nextObj' = nextObj + 1
                 /\ dlast' = [payload |-> p, status |-> "OK", object |-> nextObj]
            ELSE /\ dlast' = [payload |-> p, status |-> Decode(Payloads[p]),
                              object |-> NoObject]
                 /\ UNCHANGED <<kernel_calls, nextObj>>

GetCall ==
    /\ dcalls < MaxDecodeCalls
    /\ dcalls' = dcalls + 1
    /\ \E p \in PayloadIds : GetKernelCall(p)

DecodeFrame == UNCHANGED <<tuneVars, launchVars, imageVars, funcVars, moreVars>>
DecodeNext == GetCall /\ DecodeFrame

InitDecode == DecodeInit /\ TuneIdle /\ LaunchIdle /\ ImageIdle /\ FuncIdle /\ MoreIdle
SpecDecode == InitDecode /\ [][DecodeNext]_vars

\* C10: over any sequence of get_call calls (each runs under the cache
\* mutex), a payload that decodes is decompressed and decoded exactly once,
\* every successful call returns the object the cache holds for its payload,
\* a payload that fails to decompress or decode is never inserted, and an
\* inserted entry is never replaced or removed.
C10_State ==
    /\ \A p \in PayloadIds :
         /\ Decode(Payloads[p]) = "OK" => decodes[p] <= 1
         /\ kernel_calls[p] # NoObject => decodes[p] = 1 /\ Decode(Payloads[p]) = "OK"
         /\ Decode(Payloads[p]) # "OK" => kernel_calls[p] = NoObject
    /\ \A p, q \in PayloadIds :
         (p # q /\ kernel_calls[p] # NoObject) => kernel_calls[p] # kernel_calls[q]
    /\ dlast.status = "OK" =>
         dlast.object # NoObject /\ dlast.object = kernel_calls[dlast.payload]
    /\ (dcalls > 0 /\ dlast.status # "OK") =>
         dlast.status = Decode(Payloads[dlast.payload]) /\ dlast.object = NoObject
C10_EntriesKept ==
    \A p \in PayloadIds :
        kernel_calls[p] # NoObject => kernel_calls'[p] = kernel_calls[p]
C10_DecodeOnceInsertOnly == [](C10_State) /\ [][C10_EntriesKept]_vars
C10_Witness ==
    /\ dcalls = MaxDecodeCalls
    /\ \E p \in PayloadIds :
         /\ decodes[p] = 1 /\ kernel_calls[p] # NoObject
         /\ dlast.payload = p /\ dlast.status = "OK"
         /\ \A q \in PayloadIds : q # p => decodes[q] = 0


(***************************************************************************)
(* GetModuleImage and Kernel::Launch                                       *)
(*                                                                         *)
(* The cache key is (std::string name, shared_mem_bytes, std::string_view  *)
(* ptx, compute_capability): the assembly text is not copied, the key      *)
(* refers to the ptx_ member of the Kernel whose launch inserted it.       *)
(* Kernels 1 and 2 are the elements of configs_ of one AutotunedKernelCall, *)
(* kernel 3 belongs to a plain KernelCall that is decoded at any time (its *)
(* text may be allocated in a buffer the tuner has freed).  One host       *)
(* thread runs Autotune: it launches each config in the first pass, and in *)
(* the second pass launches each again and swaps it with configs_[0] when  *)
(* it is the fastest so far (the first always is, and is swapped with      *)
(* itself), then erases the second element.  The other host threads launch *)
(* the plain kernel meanwhile; the swap does not take the cache's mutex.   *)
(* A text short enough for std::string to hold it inline is stored in the  *)
(* vector element, so the swap rewrites the bytes of the two elements; a   *)
(* longer text is in a heap buffer that travels with the swap untouched.   *)
(***************************************************************************)
MaxKernelLaunches == 3
ImageCalls == 1..MaxKernelLaunches
\* The call slot of the thread that runs Autotune.
TunerCall == 1
ConfigKernels == {1, 2}
PlainKernels == {3}
KernelIds == ConfigKernels \cup PlainKernels
Desc(n, s, t, cc) ==
    [kernel_name |-> n, shared_mem_bytes |-> s, ptx |-> t, compute_capability |-> cc]
DescChoices == { Desc("add", 0, "ptx_a", 80), Desc("add", 0, "ptx_b", 80),
                 Desc("add", 0, "ptx_a", 75) }
NoImage == 0
\* The storage of a Kernel's ptx_ at construction: the std::string object of
\* Kernel k itself when the text is held inline, else a new heap buffer.
StorageOf(k, inline) == IF inline THEN k ELSE Cardinality(KernelIds) + k

ImageInit ==
    \E ds \in [KernelIds -> DescChoices], inline \in BOOLEAN :
        /\ kernels = [k \in KernelIds |->
                        [desc |-> ds[k], module_image_ |-> NoImage,
                         alive |-> k \in ConfigKernels,
                         inline |-> inline, text_at |-> StorageOf(k, inline)]]
        /\ module_images = {}
        /\ ipc = [c \in ImageCalls |-> "start"]
        /\ icall = [c \in ImageCalls |->
                      [kernel |-> 0, image |-> NoImage, status |-> "none", seen |-> <<>>]]
        /\ asmCalls = <<>>
        /\ tuner = [pc |-> "phase1", i |-> 1]

\* Bytes whose comparison with a text can go either way: freed storage,
\* and an inline text that std::swap is rewriting at this moment.
Undetermined == {"freed", "racing"}
\* What the bytes of a text storage hold when a key that views them is
\* compared: the ptx_ of the live Kernel that owns it; "freed" when no live
\* Kernel's text is there; "racing" when the storage is the inline text of
\* a config inside std::swap(config, configs_[0]).
Viewed(e) ==
    LET owners == { k \in KernelIds : kernels[k].alive /\ kernels[k].text_at = e.text_of }
    IN  IF tuner.pc = "swap" /\ e.text_of \in {1, tuner.i} THEN "racing"
        ELSE IF owners = {} THEN "freed"
        ELSE kernels[CHOOSE k \in owners : TRUE].desc.ptx
\* Entries found for sure: inserted under an equal key (so hashed where the
\* lookup probes) and viewing that same text still.
LiveMatches(key) ==
    { e \in module_images : e.key = key /\ Viewed(e) = key.ptx }
\* Entries the lookup may or may not return.  The name, the shared-memory
\* size and the architecture are held by value and must be equal.  Either
\* the key views bytes that are freed or being rewritten, and the comparison
\* can go either way; or it views an equal text that was swapped into its
\* storage after the entry was placed under another text's hash, and the
\* lookup reaches the entry only when the table's probing does.
StaleCandidates(key) ==
    { e \in module_images :
        /\ e.key.kernel_name = key.kernel_name
        /\ e.key.shared_mem_bytes = key.shared_mem_bytes
        /\ e.key.compute_capability = key.compute_capability
        /\ \/ Viewed(e) \in Undetermined
           \/ Viewed(e) = key.ptx /\ e.key # key }
\* module_images.find(key): the entries it may return; NoImage stands for
\* end().
FindResults(key) ==
    { e.image : e \in LiveMatches(key) \cup StaleCandidates(key) }
      \cup (IF LiveMatches(key) = {} THEN {NoImage} ELSE {})

\* CHECK(success) has failed in some call: the process is terminated.
Aborted == \E c \in ImageCalls : icall[c].status = "check_failed"

\* Kernel::Kernel for the plain KernelCall, decoded by some host thread:
\* ptx_(std::move(ptx)).  A heap text is in a new buffer, or in one the
\* allocator has got back from a destroyed config.
ConstructKernel(k) ==
    /\ ~Aborted
    /\ k \in PlainKernels
    /\ ~kernels[k].alive
    /\ LET freed == { kernels[j].text_at : j \in {i \in ConfigKernels : ~kernels[i].alive} }
       IN  \E storage \in {kernels[k].text_at}
                            \cup (IF kernels[k].inline THEN {} ELSE freed) :
             kernels' = [kernels EXCEPT ![k].alive = TRUE, ![k].text_at = storage]
    /\ UNCHANGED <<module_images, ipc, icall, asmCalls, tuner>>

\* if (module_image_ == nullptr): read without synchronization.  The tuner
\* launches the config its loop is at, the other threads the plain kernel.
KernelLaunchBegin(c) ==
    /\ ~Aborted
    /\ ipc[c] = "start"
    /\ \E k \in KernelIds :
         /\ kernels[k].alive
         /\ IF c = TunerCall THEN tuner.pc \in {"phase1", "phase2"} /\ k = tuner.i
            ELSE k \in PlainKernels
         /\ IF kernels[k].module_image_ = NoImage
            THEN /\ ipc' = [ipc EXCEPT ![c] = "get"]
                 /\ icall' = [icall EXCEPT ![c].kernel = k]
            ELSE /\ ipc' = [ipc EXCEPT ![c] = "launch"]
                 /\ icall' = [icall EXCEPT ![c].kernel = k,
                                           ![c].image = kernels[k].module_image_]
    /\ UNCHANGED <<kernels, module_images, asmCalls, tuner>>

\* GetModuleImage up to the lookup: absl::MutexLock lock(&mutex) (no other
\* call is between its lookup and its insert) and module_images.find(key).
\* A hit returns the image; a miss goes on to the assembler with the mutex
\* held, and `seen` keeps what each stored key viewed in the comparison.
GetModuleImage(c) ==
    /\ ~Aborted
    /\ ipc[c] = "get"
    /\ \A d \in ImageCalls : ipc[d] # "compile"
    /\ \E found \in FindResults(kernels[icall[c].kernel].desc) :
         IF found # NoImage
         THEN /\ icall' = [icall EXCEPT ![c].image = found]
              /\ ipc' = [ipc EXCEPT ![c] = "store"]
         ELSE /\ icall' = [icall EXCEPT ![c].seen =
                              [e \in module_images |-> Viewed(e)]]
              /\ ipc' = [ipc EXCEPT ![c] = "compile"]
    /\ UNCHANGED <<kernels, module_images, asmCalls, tuner>>

\* module_images.insert compares the stored keys once more.  It finds an
\* equal key, and reports success = false, when an entry may compare equal
\* now whose bytes are not what find compared: they are freed or being
\* rewritten, or they have changed since.
InsertMayFail(key, seen) ==
    \E e \in LiveMatches(key) \cup StaleCandidates(key) :
        Viewed(e) \in Undetermined \/ Viewed(e) # seen[e]

\* The rest of GetModuleImage after a miss: CompileGpuAsm, the insert, and
\* CHECK(success), which terminates the process when the insert fails.
CompileAndInsert(c) ==
    /\ ~Aborted
    /\ ipc[c] = "compile"
    /\ LET k == icall[c].kernel
           key == kernels[k].desc
       IN \E ok \in BOOLEAN :
            /\ asmCalls' = Append(asmCalls,
                   [key |-> key,
                    cc_major |-> key.compute_capability \div 10,
                    cc_minor |-> key.compute_capability % 10,
                    ok |-> ok])
            /\ IF ok
               THEN \/ LET image == Cardinality(module_images) + 1
                       IN  /\ LiveMatches(key) = {}
                           /\ module_images' = module_images \cup
                                 {[key |-> key, text_of |-> kernels[k].text_at,
                                   image |-> image]}
                           /\ icall' = [icall EXCEPT ![c].image = image,
                                                     ![c].seen = <<>>]
                           /\ ipc' = [ipc EXCEPT ![c] = "store"]
                    \/ /\ InsertMayFail(key, icall[c].seen)
                       /\ icall' = [icall EXCEPT ![c].status = "check_failed",
                                                 ![c].seen = <<>>]
                       /\ ipc' = [ipc EXCEPT ![c] = "done"]
                       /\ UNCHANGED module_images
               ELSE /\ icall' = [icall EXCEPT ![c].status = "compile_error",
                                              ![c].seen = <<>>]
                    /\ ipc' = [ipc EXCEPT ![c] = "done"]
                    /\ UNCHANGED module_images
    /\ UNCHANGED <<kernels, tuner>>

\* JAX_ASSIGN_OR_RETURN(module_image_, ...): the unsynchronized write.
StoreModuleImage(c) ==
    /\ ~Aborted
    /\ ipc[c] = "store"
    /\ kernels' = [kernels EXCEPT ![icall[c].kernel].module_image_ = icall[c].image]
    /\ ipc' = [ipc EXCEPT ![c] = "launch"]
    /\ UNCHANGED <<module_images, icall, asmCalls, tuner>>

\* cuStreamGetCtx, GetFunctionForContext, cuLaunchKernel
KernelLaunchEnd(c) ==
    /\ ~Aborted
    /\ ipc[c] = "launch"
    /\ ipc' = [ipc EXCEPT ![c] = "done"]
    /\ \E o \in {"OK", "driver_error"} :
         icall' = [icall EXCEPT ![c].status = o]
    /\ UNCHANGED <<kernels, module_images, asmCalls, tuner>>

\* The tuner's thread is ready for its next launch.
NextLaunch(c) ==
    /\ ipc' = [ipc EXCEPT ![c] = "start"]
    /\ icall' = [icall EXCEPT ![c] =
                    [kernel |-> 0, image |-> NoImage, status |-> "none", seen |-> <<>>]]
\* After the config at index i: the next config of the second pass, or the
\* erase.
AfterConfig(i) ==
    IF i < Cardinality(ConfigKernels) THEN [pc |-> "phase2", i |-> i + 1]
    ELSE [pc |-> "erase", i |-> i]

\* Autotune after a benchmark of config i has returned.  A failure returns
\* from Autotune.  The first pass goes on to the next config, then to the
\* second pass; the second pass enters std::swap(config, configs_[0]) when
\* t < best, which holds for the first config (best is infinity) and may
\* hold for a later one.
AutotuneBenchmarked ==
    /\ ~Aborted
    /\ ipc[TunerCall] = "done"
    /\ tuner.pc \in {"phase1", "phase2"}
    /\ IF icall[TunerCall].status # "OK"
       THEN /\ tuner' = [tuner EXCEPT !.pc = "done"]
            /\ UNCHANGED <<ipc, icall>>
       ELSE IF tuner.pc = "phase1"
       THEN /\ tuner' = IF tuner.i < Cardinality(ConfigKernels)
                        THEN [tuner EXCEPT !.i = @ + 1]
                        ELSE [pc |-> "phase2", i |-> 1]
            /\ NextLaunch(TunerCall)
       ELSE \/ /\ tuner' = [tuner EXCEPT !.pc = "swap"]
               /\ UNCHANGED <<ipc, icall>>
            \/ /\ tuner.i > 1
               /\ tuner' = AfterConfig(tuner.i)
               /\ NextLaunch(TunerCall)
    /\ UNCHANGED <<kernels, module_images, asmCalls>>

\* std::swap of two configs: the elements exchange their members.  A heap
\* buffer goes with its text; an inline text is copied into the other
\* element's own storage.
Swapped(ks, i, j) ==
    LET Moved(from, to) ==
            [from EXCEPT !.text_at = IF from.inline THEN StorageOf(to, TRUE)
                                     ELSE from.text_at]
    IN  [ks EXCEPT ![i] = Moved(ks[j], i), ![j] = Moved(ks[i], j)]
\* std::swap(config, configs_[0]) has finished.
SwapConfigs ==
    /\ ~Aborted
    /\ tuner.pc = "swap"
    /\ kernels' = Swapped(kernels, 1, tuner.i)
    /\ tuner' = AfterConfig(tuner.i)
    /\ NextLaunch(TunerCall)
    /\ UNCHANGED <<module_images, asmCalls>>

\* configs_.erase(configs_.begin() + 1, configs_.end()): every element but
\* the first is destroyed.
EraseLosingConfig(k) ==
    /\ ~Aborted
    /\ tuner.pc = "erase"
    /\ k \in ConfigKernels /\ k > 1
    /\ kernels' = [kernels EXCEPT ![k].alive = FALSE]
    /\ tuner' = [tuner EXCEPT !.pc = "done"]
    /\ UNCHANGED <<module_images, ipc, icall, asmCalls>>

ImageFrame == UNCHANGED <<tuneVars, launchVars, funcVars, decodeVars, moreVars>>
ImageNext ==
    \/ \E c \in ImageCalls :
         \/ KernelLaunchBegin(c) /\ ImageFrame
         \/ GetModuleImage(c) /\ ImageFrame
         \/ CompileAndInsert(c) /\ ImageFrame
         \/ StoreModuleImage(c) /\ ImageFrame
         \/ KernelLaunchEnd(c) /\ ImageFrame
    \/ AutotuneBenchmarked /\ ImageFrame
    \/ SwapConfigs /\ ImageFrame
    \/ \E k \in KernelIds : EraseLosingConfig(k) /\ ImageFrame
    \/ \E k \in KernelIds : ConstructKernel(k) /\ ImageFrame

InitImage == ImageInit /\ TuneIdle /\ LaunchIdle /\ FuncIdle /\ DecodeIdle /\ MoreIdle
SpecImage == InitImage /\ [][ImageNext]_vars

SuccessfulCompiles(key) ==
    Cardinality({i \in 1..Len(asmCalls) : asmCalls[i].key = key /\ asmCalls[i].ok})
AssemblerNeverFailed == \A i \in 1..Len(asmCalls) : asmCalls[i].ok
\* C8: as long as the assembler succeeds, all get_module_image calls with
\* equal (name, shared-memory bytes, assembly text, architecture) return the
\* same ModuleImage and the assembler is invoked once for that key.
C8_OneImagePerKey ==
    AssemblerNeverFailed =>
        /\ \A c \in ImageCalls, k \in KernelIds :
             (icall[c].image # NoImage /\ kernels[k].module_image_ # NoImage
                /\ kernels[icall[c].kernel].desc = kernels[k].desc)
               => icall[c].image = kernels[k].module_image_
        /\ \A j, k \in KernelIds :
             (kernels[j].module_image_ # NoImage /\ kernels[k].module_image_ # NoImage
                /\ kernels[j].desc = kernels[k].desc)
               => kernels[j].module_image_ = kernels[k].module_image_
        /\ \A key \in DescChoices : SuccessfulCompiles(key) <= 1

\* C20: every key stored in the module-image cache refers to assembly text
\* still owned by a live Kernel, also after the tuner has swapped and
\* discarded the losing configs: the storage the key views holds the text
\* of a live Kernel, and it is the text the key was inserted with.
C20_KeysReferToLiveText ==
    \A e \in module_images :
        \E k \in KernelIds : /\ kernels[k].alive
                             /\ kernels[k].text_at = e.text_of
                             /\ kernels[k].desc.ptx = e.key.ptx


(***************************************************************************)
(* TritonKernelCall: the custom-call entry point                           *)
(*                                                                         *)
(* Several host threads call the entry point concurrently; each call has   *)
(* its own failure slot.  The lookup runs under the decode cache's mutex.  *)
(***************************************************************************)
MaxEntryCalls == 2
EntryCalls == 1..MaxEntryCalls
Unset == [set |-> FALSE, message |-> ""]

\* AutotunedKernelCall::FromProto: one Config per config of the record, in
\* order; the record may list none.
FromProtoConfigs(b) == [i \in 1..b.configs |-> i]
\* The payload a cached call object was decoded from.
PayloadOf(obj) == CHOOSE p \in PayloadIds : kernel_calls[p] = obj
IsAutotuned(obj) == Payloads[PayloadOf(obj)].variant = "autotuned_kernel_call"
ConfigsOf(obj) == FromProtoConfigs(Payloads[PayloadOf(obj)])

\* Failures kernel_call->Launch can return: a misaligned buffer, a failure
\* of the assembler, a kernel that asks for more shared memory than the
\* device has, a driver error.  A tuning pass returns, and stores, the
\* failure of the launch it stopped at.
LaunchFailures == {"Parameter 0 (0x28) is not divisible by 16.",
                   "ptxas exited with non-zero error code",
                   "Shared memory requested exceeds device resources.",
                   "CUDA_ERROR_LAUNCH_FAILED"}
\* Another AutotunedKernelCall has entered its tuning pass, so keys of the
\* image cache may view configs that are being swapped or are destroyed:
\* GetModuleImage for a kernel without an image can fail CHECK(success).
TuningBegun(p) ==
    \E q \in PayloadIds \ {p} :
        /\ kernel_calls[q] # NoObject
        /\ Payloads[q].variant = "autotuned_kernel_call"
        /\ Len(FromProtoConfigs(Payloads[q])) > 1
        /\ eobjs[q].autotune_once_ # "not_started"

EntryInit ==
    /\ epc = [c \in EntryCalls |-> "start"]
    /\ ecall = [c \in EntryCalls |->
                  [payload |-> 0, lookup |-> "none", object |-> NoObject, launch |-> "none"]]
    /\ xla_status = [c \in EntryCalls |-> Unset]
    /\ eoob = FALSE
    /\ eobjs = [p \in PayloadIds |->
                  [autotune_once_ |-> "not_started", autotune_status_ |-> "OK",
                   module_image_ |-> FALSE]]

\* The process is running: no launch has ended it.
Running == \A c \in EntryCalls : epc[c] # "crashed"
\* The call returns r from kernel_call->Launch, or the process ends.
Return(c, r) ==
    /\ ecall' = [ecall EXCEPT ![c].launch = IF r = "crash" THEN @ ELSE r]
    /\ epc' = [epc EXCEPT ![c] = IF r = "crash" THEN "crashed" ELSE "report"]

\* JAX_ASSIGN_OR_RETURN(kernel_call, GetKernelCall(opaque)): on a failure the
\* lambda returns it without launching.
EntryGetKernelCall(c) ==
    /\ Running
    /\ epc[c] = "start"
    /\ \E p \in PayloadIds :
         /\ GetKernelCall(p)
         /\ ecall' = [ecall EXCEPT ![c].payload = p, ![c].lookup = dlast'.status,
                                   ![c].object = dlast'.object]
         /\ epc' = [epc EXCEPT ![c] = IF dlast'.status = "OK" THEN "launch" ELSE "report"]
    /\ dcalls' = dcalls + 1
    /\ UNCHANGED <<xla_status, eoob, eobjs>>

\* return kernel_call->Launch(stream, buffers): KernelCall::Launch for a
\* plain call; for an autotuned call absl::call_once(autotune_once_, ...).
\* The first caller runs the callable, which tunes only when there is more
\* than one config; a caller that arrives while it runs waits.
EntryLaunch(c) ==
    /\ Running
    /\ epc[c] = "launch"
    /\ LET p == ecall[c].payload
       IN  IF ~IsAutotuned(ecall[c].object)
           THEN /\ epc' = [epc EXCEPT ![c] = "kernel"]
                /\ UNCHANGED eobjs
           ELSE /\ eobjs[p].autotune_once_ # "running"
                /\ IF eobjs[p].autotune_once_ = "done"
                   THEN /\ epc' = [epc EXCEPT ![c] = "status"]
                        /\ UNCHANGED eobjs
                   ELSE IF Len(ConfigsOf(ecall[c].object)) > 1
                   THEN /\ epc' = [epc EXCEPT ![c] = "autotune"]
                        /\ eobjs' = [eobjs EXCEPT ![p].autotune_once_ = "running"]
                   ELSE /\ epc' = [epc EXCEPT ![c] = "status"]
                        /\ eobjs' = [eobjs EXCEPT ![p].autotune_once_ = "done"]
    /\ UNCHANGED <<ecall, xla_status, eoob, decodeVars>>

\* autotune_status_ = Autotune(stream, buffers), and the callable returns.
\* Autotune returns the first failure of a driver call or of a benchmark's
\* launch.  The benchmarks launch every config, so a pass without failure
\* leaves configs_[0] with its image; a failed pass may or may not.
EntryAutotune(c) ==
    /\ Running
    /\ epc[c] = "autotune"
    /\ LET p == ecall[c].payload
       IN  \E r \in {"OK"} \cup LaunchFailures
                      \cup (IF TuningBegun(p) THEN {"crash"} ELSE {}),
              image \in BOOLEAN :
             IF r = "crash"
             THEN Return(c, r) /\ UNCHANGED eobjs
             ELSE /\ r = "OK" => image
                  /\ eobjs' = [eobjs EXCEPT ![p] =
                                  [autotune_once_ |-> "done", autotune_status_ |-> r,
                                   module_image_ |-> image]]
                  /\ epc' = [epc EXCEPT ![c] = "status"]
                  /\ UNCHANGED ecall
    /\ UNCHANGED <<xla_status, eoob, decodeVars>>

\* JAX_RETURN_IF_ERROR(autotune_status_);
\* return configs_[0].kernel_call.Launch(stream, buffers);
\* configs_[0] of an empty list is undefined behaviour: the launch may
\* return anything or end the process.
EntryAfterOnce(c) ==
    /\ Running
    /\ epc[c] = "status"
    /\ LET p == ecall[c].payload
       IN  IF eobjs[p].autotune_status_ # "OK"
           THEN Return(c, eobjs[p].autotune_status_) /\ UNCHANGED eoob
           ELSE IF Len(ConfigsOf(ecall[c].object)) = 0
           THEN /\ eoob' = TRUE
                /\ \E r \in {"OK", "crash"} \cup LaunchFailures : Return(c, r)
           ELSE /\ epc' = [epc EXCEPT ![c] = "kernel"]
                /\ UNCHANGED <<ecall, eoob>>
    /\ UNCHANGED <<xla_status, eobjs, decodeVars>>

\* KernelCall::Launch: the buffer checks and memsets, then kernel_.Launch
\* up to if (module_image_ == nullptr).
EntryKernelCallLaunch(c) ==
    /\ Running
    /\ epc[c] = "kernel"
    /\ \/ \E r \in {"Parameter 0 (0x28) is not divisible by 16.",
                    "CUDA_ERROR_LAUNCH_FAILED"} : Return(c, r)
       \/ /\ epc' = [epc EXCEPT ![c] =
                IF eobjs[ecall[c].payload].module_image_ THEN "function" ELSE "image"]
          /\ UNCHANGED ecall
    /\ UNCHANGED <<xla_status, eoob, eobjs, decodeVars>>

\* JAX_ASSIGN_OR_RETURN(module_image_, GetModuleImage(...)): under the
\* cache's mutex the lookup, the assembler and the insert; CHECK(success)
\* ends the process when the insert finds a key it takes for equal.
EntryGetModuleImage(c) ==
    /\ Running
    /\ epc[c] = "image"
    /\ LET p == ecall[c].payload
       IN  \E r \in {"OK", "ptxas exited with non-zero error code"}
                      \cup (IF TuningBegun(p) THEN {"crash"} ELSE {}) :
             IF r = "OK"
             THEN /\ eobjs' = [eobjs EXCEPT ![p].module_image_ = TRUE]
                  /\ epc' = [epc EXCEPT ![c] = "function"]
                  /\ UNCHANGED ecall
             ELSE Return(c, r) /\ UNCHANGED eobjs
    /\ UNCHANGED <<xla_status, eoob, decodeVars>>

\* cuStreamGetCtx, GetFunctionForContext (under the image's mutex), which
\* fails with a driver error or when the kernel's shared memory exceeds the
\* device's, and cuLaunchKernel.
EntryKernelLaunch(c) ==
    /\ Running
    /\ epc[c] = "function"
    /\ \E r \in {"OK", "Shared memory requested exceeds device resources.",
                    "CUDA_ERROR_LAUNCH_FAILED"} : Return(c, r)
    /\ UNCHANGED <<xla_status, eoob, eobjs, decodeVars>>

\* absl::Status result of the lambda
Result(call) == IF call.lookup # "OK" THEN call.lookup ELSE call.launch
\* result.ok()
OkAlways(result) == TRUE
Ok(result) == result = "OK"

\* if (!result.ok()) XlaCustomCallStatusSetFailure(status, msg.data(), msg.length())
EntryReport(c) ==
    /\ Running
    /\ epc[c] = "report"
    /\ xla_status' = IF Ok(Result(ecall[c])) THEN xla_status
                     ELSE [xla_status EXCEPT ![c] = [set |-> TRUE, message |-> Result(ecall[c])]]
    /\ epc' = [epc EXCEPT ![c] = "done"]
    /\ UNCHANGED <<ecall, eoob, eobjs, decodeVars>>

EntryFrame == UNCHANGED <<tuneVars, launchVars, imageVars, funcVars, contextVars, zlibVars,
                          protoVars, itersVars>>
EntryNext ==
    \E c \in EntryCalls :
        \/ EntryGetKernelCall(c) /\ EntryFrame
        \/ EntryLaunch(c) /\ EntryFrame
        \/ EntryAutotune(c) /\ EntryFrame
        \/ EntryAfterOnce(c) /\ EntryFrame
        \/ EntryKernelCallLaunch(c) /\ EntryFrame
        \/ EntryGetModuleImage(c) /\ EntryFrame
        \/ EntryKernelLaunch(c) /\ EntryFrame
        \/ EntryReport(c) /\ EntryFrame

InitEntry == EntryInit /\ DecodeInit /\ TuneIdle /\ LaunchIdle /\ ImageIdle /\ FuncIdle
             /\ ContextIdle /\ ZlibIdle /\ ProtoIdle /\ ItersIdle
SpecEntry == InitEntry /\ [][EntryNext]_vars

\* C11: the entry point writes the failure slot if and only if the lookup or
\* the launch returned a failure, and the message written is that failure's;
\* a failed lookup is followed by no launch, and when both succeed the slot
\* is left untouched.
C11_FailureSlot ==
    \A c \in EntryCalls :
        /\ xla_status[c].set =>
              /\ epc[c] = "done"
              /\ ~(ecall[c].lookup = "OK" /\ ecall[c].launch = "OK")
              /\ xla_status[c].message =
                    (IF ecall[c].lookup # "OK" THEN Decode(Payloads[ecall[c].payload])
                     ELSE ecall[c].launch)
        /\ (epc[c] = "done" /\ (ecall[c].lookup # "OK" \/ ecall[c].launch # "OK"))
              => xla_status[c].set
        /\ (ecall[c].lookup \notin {"none", "OK"})
              => (ecall[c].launch = "none" /\ epc[c] \in {"report", "done"})
        /\ (epc[c] = "done" /\ ecall[c].lookup = "OK" /\ ecall[c].launch = "OK")
              => xla_status[c] = Unset
C11_Witness ==
    /\ epc[1] = "done" /\ epc[2] = "done"
    /\ xla_status[1] = [set |-> TRUE, message |-> "Failed to parse serialized data."]
    /\ ecall[1].launch = "none"
    /\ xla_status[2] = [set |-> TRUE, message |-> "CUDA_ERROR_LAUNCH_FAILED"]
    /\ ecall[2].lookup = "OK"


\* C13: every AutotunedKernelCall the decode cache has constructed holds at
\* least one config, so no launch indexes configs_[0] of an empty list.
C13_AtLeastOneConfig ==
    /\ \A p \in PayloadIds :
         (kernel_calls[p] # NoObject /\ IsAutotuned(kernel_calls[p]))
            => Len(ConfigsOf(kernel_calls[p])) >= 1
    /\ ~eoob


(***************************************************************************)
(* The device-context stack                                                *)
(*                                                                         *)
(* One host thread and its stack of current contexts.  The thread calls    *)
(* GetFunctionForContext (from a launch) or Autotune; the benchmarks of    *)
(* Autotune launch kernels, which call GetFunctionForContext while         *)
(* Autotune's context is pushed.  A call is a frame with its position; the *)
(* scoped cleanup of a frame runs when the frame returns.                  *)
(***************************************************************************)
MaxContextCalls == 3
InitialStacks == { <<>>, <<1>> }
Frame(fn, context, depth) ==
    [fn |-> fn, context |-> context, at |-> "enter", pushed |-> FALSE,
     cleanup |-> FALSE, entry |-> depth, result |-> "none"]
Top == cframes[Len(cframes)]
SetTop(f) == [cframes EXCEPT ![Len(cframes)] = f]

\* cuCtxPushCurrent(context)
PushCurrent(stack, context) == Append(stack, context)
\* cuCtxPopCurrent(nullptr): fails, changing nothing, on an empty stack
PopCurrent(stack) == IF stack = <<>> THEN stack ELSE SubSeq(stack, 1, Len(stack) - 1)

\* absl::Cleanup ctx_restorer is declared after CUDA_RETURN_IF_ERROR has let
\* the push through, so it exists exactly when the push succeeded.
CleanupDeclaredAlways(pushed) == TRUE
CleanupDeclared(pushed) == pushed

ContextInit ==
    \E st \in InitialStacks :
        /\ ctx_stack = st
        /\ cframes = <<>>
        /\ creturn = [fn |-> "none", before |-> 0, after |-> 0, pushed |-> FALSE,
                      pops |-> 0, result |-> "none"]
        /\ ccalls = 0

\* A launch calls GetFunctionForContext, or the first launch of an
\* AutotunedKernelCall calls Autotune.
ContextCall ==
    /\ cframes = <<>>
    /\ ccalls < MaxContextCalls
    /\ \E fn \in {"get_function", "autotune"}, context \in Contexts :
         cframes' = <<Frame(fn, context, Len(ctx_stack))>>
    /\ ccalls' = ccalls + 1
    /\ UNCHANGED <<ctx_stack, creturn, funcVars>>

\* GetFunctionForContext: the cache lookup; Autotune: cuStreamGetCtx.
ContextEnter ==
    /\ cframes # <<>>
    /\ Top.at = "enter"
    /\ IF Top.fn = "get_function"
       THEN cframes' = SetTop(IF Cached(Top.context)
                                THEN [Top EXCEPT !.at = "return", !.result = "function"]
                                ELSE [Top EXCEPT !.at = "push"])
       ELSE \E ok \in BOOLEAN :
              cframes' = SetTop(IF ok THEN [Top EXCEPT !.at = "push"]
                                ELSE [Top EXCEPT !.at = "return", !.result = "cuStreamGetCtx"])
    /\ UNCHANGED <<ctx_stack, creturn, ccalls, funcVars>>

\* CUDA_RETURN_IF_ERROR(cuCtxPushCurrent(context)); absl::Cleanup ctx_restorer
ContextPush ==
    /\ cframes # <<>>
    /\ Top.at = "push"
    /\ \E pushed \in BOOLEAN :
         /\ ctx_stack' = IF pushed THEN PushCurrent(ctx_stack, Top.context) ELSE ctx_stack
         /\ cframes' = SetTop([Top EXCEPT
                !.at = IF pushed THEN "body" ELSE "return",
                !.pushed = pushed,
                !.cleanup = CleanupDeclared(pushed),
                !.result = IF pushed THEN "none" ELSE "cuCtxPushCurrent"])
    /\ UNCHANGED <<creturn, ccalls, funcVars>>

\* The rest of GetFunctionForContext's miss path (lines 154-199), with the
\* first failing driver call f.
FunctionBody ==
    /\ cframes # <<>>
    /\ Top.fn = "get_function" /\ Top.at = "body"
    /\ \E f \in (0..Len(DriverCalls)) \ {Position("cuCtxPushCurrent")} :
         GetFunctionForContext(Top.context, f)
    /\ fcalls' = fcalls + 1
    /\ cframes' = SetTop([Top EXCEPT !.at = "return", !.result = flast'.result])
    /\ UNCHANGED <<ctx_stack, creturn, ccalls, shared_mem_bytes_, shared_optin>>

\* The rest of Autotune (lines 440-500): a benchmark launches a kernel, which
\* calls GetFunctionForContext on the stream's context; or a driver call
\* fails; or the pass ends.
AutotuneBody ==
    /\ cframes # <<>>
    /\ Top.fn = "autotune" /\ Top.at = "body"
    /\ \/ /\ ccalls < MaxContextCalls
          /\ cframes' = Append(cframes, Frame("get_function", Top.context, Len(ctx_stack)))
          /\ ccalls' = ccalls + 1
       \/ /\ \E r \in {"OK", "driver_error"} :
               cframes' = SetTop([Top EXCEPT !.at = "return", !.result = r])
          /\ UNCHANGED ccalls
    /\ UNCHANGED <<ctx_stack, creturn, funcVars>>

\* The call returns: its scoped cleanup, if declared, pops the context.  A
\* failure of GetFunctionForContext inside a benchmark makes Autotune return
\* that failure (JAX_RETURN_IF_ERROR, JAX_ASSIGN_OR_RETURN).
ContextReturn ==
    /\ cframes # <<>>
    /\ Top.at = "return"
    /\ ctx_stack' = IF Top.cleanup THEN PopCurrent(ctx_stack) ELSE ctx_stack
    /\ creturn' = [fn |-> Top.fn, before |-> Top.entry, after |-> Len(ctx_stack'),
                   pushed |-> Top.pushed,
                   pops |-> IF Top.cleanup THEN 1 ELSE 0,
                   result |-> Top.result]
    /\ cframes' =
         LET rest == SubSeq(cframes, 1, Len(cframes) - 1)
         IN  IF rest # <<>> /\ Top.result # "function"
             THEN [rest EXCEPT ![Len(rest)].at = "return",
                               ![Len(rest)].result = Top.result]
             ELSE rest
    /\ UNCHANGED <<ccalls, funcVars>>

ContextFrame == UNCHANGED <<tuneVars, launchVars, imageVars, decodeVars, entryVars, zlibVars,
                            protoVars, itersVars>>
ContextNext ==
    \/ ContextCall /\ ContextFrame
    \/ ContextEnter /\ ContextFrame
    \/ ContextPush /\ ContextFrame
    \/ FunctionBody /\ ContextFrame
    \/ AutotuneBody /\ ContextFrame
    \/ ContextReturn /\ ContextFrame

InitContext == ContextInit /\ FuncInit /\ TuneIdle /\ LaunchIdle /\ ImageIdle /\ DecodeIdle
                /\ EntryIdle /\ ZlibIdle /\ ProtoIdle /\ ItersIdle
SpecContext == InitContext /\ [][ContextNext]_vars

\* C12: every execution of GetFunctionForContext and of Autotune that pushed
\* a context pops it exactly once before returning, on success and on every
\* early error return, and one that did not push (cache hit, failed push,
\* failed cuStreamGetCtx) pops nothing: the depth of the context stack after
\* the call is the depth before it.
C12_ContextRestored ==
    /\ creturn.after = creturn.before
    /\ creturn.pops = (IF creturn.pushed THEN 1 ELSE 0)
    /\ cframes = <<>> => ctx_stack \in InitialStacks
    /\ \A k \in 1..Len(cframes) :
         cframes[k].entry =
           Len(ctx_stack) - Cardinality({j \in k..Len(cframes) : cframes[j].pushed})
C12_Witness ==
    /\ cframes = <<>>
    /\ creturn.fn = "autotune" /\ creturn.pushed
    /\ creturn.result = "shared_mem_exceeds"
    /\ creturn.before = 1 /\ creturn.after = 1
    /\ Len(modules_) = 1


(***************************************************************************)
(* ZlibUncompress                                                          *)
(*                                                                         *)
(* zlib's uncompress is the environment.  A payload is described by its    *)
(* size and by what its bytes hold: a complete stream of `out` bytes;      *)
(* bytes that end ("truncated") after `out` bytes of output; or bytes in   *)
(* which inflate finds an error after `out` bytes of output, either when   *)
(* decoding ("corrupt": a bad header, block, code or checksum) or only     *)
(* when about to write a match that refers too far back ("bad_distance"),  *)
(* for which it wants room in the buffer first.  A complete stream is at   *)
(* least 8 bytes long, and no output comes from fewer than 4 bytes (the    *)
(* 2-byte header and the first literal).                                   *)
(***************************************************************************)
MaxCompressed == 11
MaxOut == 230
Compressed(n, k, u) == [size |-> n, kind |-> k, out |-> u]
CompressedChoices ==
    { Compressed(n, k, u) : n \in 0..MaxCompressed, k \in {"stream", "truncated", "bad_distance", "corrupt"},
                            u \in 0..MaxOut }
\* The least number of bits of deflate data that decode to `out` bytes (up
\* to 259): the 3 bits that open a block, then 8 bits for each literal, or
\* one literal and one match that repeats it, whose length takes 7 or 8
\* bits and 0 to 5 more, and whose distance takes 5 bits.
DataBits(out) ==
    LET LengthBits(len) == IF len <= 10 THEN 12 ELSE IF len <= 18 THEN 13
                           ELSE IF len <= 34 THEN 14 ELSE IF len <= 66 THEN 15
                           ELSE IF len <= 114 THEN 16 ELSE IF len <= 130 THEN 17
                           ELSE IF len <= 257 THEN 18 ELSE 13
    IN  IF out <= 3 THEN 3 + 8 * out ELSE 11 + LengthBits(out - 1)
\* The descriptions some byte string has.  A payload is a 2-byte header,
\* deflate data, and for a complete stream the 7 bits that end the last
\* block and a 4-byte checksum; bytes after the end or after an error are
\* not read.  Input can end anywhere.  A match whose distance d exceeds the
\* output takes 7 bits and 5 to 12 for d; the shortest other error is a bad
\* header, or an 8-bit code that stands for no symbol.
ValidPayload(c) ==
    LET DistBits(d) == IF d <= 4 THEN 5 ELSE IF d <= 8 THEN 6 ELSE IF d <= 16 THEN 7
                       ELSE IF d <= 32 THEN 8 ELSE IF d <= 64 THEN 9
                       ELSE IF d <= 128 THEN 10 ELSE IF d <= 256 THEN 11 ELSE 12
        bits == 8 * (c.size - 2)
    IN  CASE c.kind = "stream" -> bits - 32 >= DataBits(c.out) + 7
          [] c.kind = "truncated" -> c.out = 0 \/ bits >= DataBits(c.out)
          [] c.kind = "bad_distance" -> bits >= DataBits(c.out) + 7 + DistBits(c.out + 1)
          [] OTHER -> c.size >= 2 /\ (c.out = 0 \/ bits >= DataBits(c.out) + 8)

\* uncompress(dest, &dest_len, source, source_len) on a buffer of `cap`
\* bytes: the return code and the value left in dest_len.  Z_OK stores the
\* uncompressed size.  Z_BUF_ERROR leaves the count of bytes written, which
\* is cap: the buffer was filled before the stream ended or before the error
\* was met; with the buffer exactly full, input that ends and a match that
\* refers too far back ask for more room too, while an error met in decoding
\* is reported.  With
\* cap = 0 uncompress inflates into one byte of its own and leaves dest_len
\* at 0: Z_OK for a complete stream of at most that byte, else Z_DATA_ERROR.
Uncompress(c, cap) ==
    IF cap = 0
    THEN IF c.kind = "stream" /\ c.out <= 1 THEN [ret |-> "Z_OK", dest_len |-> 0]
         ELSE [ret |-> "Z_DATA_ERROR", dest_len |-> 0]
    ELSE IF c.kind = "stream"
    THEN IF cap >= c.out THEN [ret |-> "Z_OK", dest_len |-> c.out]
         ELSE [ret |-> "Z_BUF_ERROR", dest_len |-> cap]
    ELSE IF cap < c.out \/ (c.kind \in {"truncated", "bad_distance"} /\ cap = c.out)
    THEN [ret |-> "Z_BUF_ERROR", dest_len |-> cap]
    ELSE [ret |-> "Z_DATA_ERROR", dest_len |-> c.out]

\* uLongf dest_len = 5 * compressed.size()
InitialCapacity(c) == 5 * c.size
\* dest_len *= 2
GrowNot(len) == len
Grow(len) == len * 2

ZlibInit ==
    \E c \in CompressedChoices :
        /\ ValidPayload(c)
        /\ compressed = c
        /\ dest_len = InitialCapacity(c)
        /\ data = 0
        /\ zpc = "loop"
        /\ zresult = "none"

\* One iteration of while (true): resize, uncompress, then break, grow or
\* return the error.  uncompress can also run out of memory, and has zeroed
\* dest_len by then.
ZlibIteration ==
    /\ zpc = "loop"
    /\ \E r \in {Uncompress(compressed, dest_len),
                 [ret |-> "Z_MEM_ERROR", dest_len |-> 0]} :
         IF r.ret = "Z_OK"
         THEN /\ data' = r.dest_len
              /\ dest_len' = r.dest_len
              /\ zpc' = "done"
              /\ zresult' = "OK"
         ELSE IF r.ret = "Z_BUF_ERROR"
         THEN /\ data' = dest_len
              /\ dest_len' = Grow(r.dest_len)
              /\ UNCHANGED <<zpc, zresult>>
         ELSE /\ data' = dest_len
              /\ dest_len' = r.dest_len
              /\ zpc' = "done"
              /\ zresult' = "Failed to uncompress opaque data."
    /\ UNCHANGED compressed

ZlibFrame == UNCHANGED <<tuneVars, launchVars, imageVars, funcVars, decodeVars,
                         entryVars, contextVars, protoVars, itersVars>>
ZlibNext == ZlibIteration /\ ZlibFrame

InitZlib == ZlibInit /\ TuneIdle /\ LaunchIdle /\ ImageIdle /\ FuncIdle /\ DecodeIdle
             /\ EntryIdle /\ ContextIdle /\ ProtoIdle /\ ItersIdle
SpecZlib == InitZlib /\ [][ZlibNext]_vars
\* The loop is straight-line code of one thread: it keeps executing.
SpecZlibFair == SpecZlib /\ WF_vars(ZlibNext)

\* The result, once returned: a complete stream gives all of its data unless
\* memory ran out, anything else the uncompress error.
ZlibResultRight ==
    zpc = "done" =>
        /\ zresult \in {"OK", "Failed to uncompress opaque data."}
        /\ zresult = "OK" => compressed.kind = "stream" /\ data = compressed.out
        /\ compressed.kind # "stream" => zresult # "OK"
\* A retry runs with a strictly larger capacity.
ZlibCapacityGrows ==
    (zpc = "loop" /\ zpc' = "loop") => dest_len' > dest_len
\* C14: ZlibUncompress terminates for every payload, the empty one included;
\* whenever uncompress reports the buffer too small the capacity strictly
\* grows and the call is retried, ending with the complete data; any other
\* uncompress error ends with "Failed to uncompress opaque data.".
C14_ZlibTerminates ==
    /\ <>(zpc = "done")
    /\ [](ZlibResultRight)
    /\ [][ZlibCapacityGrows]_vars
C14_Witness ==
    /\ zpc = "done" /\ zresult = "OK"
    /\ compressed.kind = "stream"
    /\ compressed.out > 4 * InitialCapacity(compressed)
    /\ data = compressed.out


(***************************************************************************)
(* ToProto / FromProto                                                     *)
(*                                                                         *)
(* Objects are built by the constructors; a record (proto) holds the       *)
(* fields the setters store.  A Parameter is the std::variant: an Array or *)
(* a scalar tagged with its type.                                          *)
(***************************************************************************)
MaxProtoParams == 2
MaxProtoConfigs == 2
kNumThreadsPerWarp == 32
\* num_warps * kNumThreadsPerWarp in uint32_t wraps at 2^32, so the product
\* is kNumThreadsPerWarp * (num_warps mod 2^27).
kUint32Warps == 134217728
BlockDimX(num_warps) == kNumThreadsPerWarp * (num_warps % kUint32Warps)

\* Kernel::Kernel
Kernel(kernel_name, num_warps, shared_mem_bytes, ptx, ttir, compute_capability) ==
    [kernel_name_ |-> kernel_name,
     block_dim_x_ |-> BlockDimX(num_warps),
     shared_mem_bytes_ |-> shared_mem_bytes,
     ptx_ |-> ptx,
     ttir_ |-> ttir,
     compute_capability_ |-> compute_capability]
KernelFromProto(proto) ==
    Kernel(proto.kernel_name, proto.num_warps, proto.shared_mem_bytes, proto.ptx,
           proto.ttir, proto.compute_capability)
\* proto.set_num_warps(block_dim_x_ / kNumThreadsPerWarp)
WarpsOfWidth(block_dim_x) == block_dim_x \div kNumThreadsPerWarp
KernelToProto(k) ==
    [kernel_name |-> k.kernel_name_,
     num_warps |-> WarpsOfWidth(k.block_dim_x_),
     shared_mem_bytes |-> k.shared_mem_bytes_,
     ptx |-> k.ptx_,
     ttir |-> k.ttir_,
     compute_capability |-> k.compute_capability_]

\* The setter Parameter::ToProto picks for the alternative the variant
\* holds, as the value_case it leaves in the record.
ValueCaseUnsigned(kind) ==
    CASE kind = "array" -> "kArray"
      [] kind = "bool" -> "kBool"
      [] kind = "i32" -> "kU32"
      [] kind = "u32" -> "kU32"
      [] kind = "i64" -> "kU64"
      [] OTHER -> "kU64"
ValueCase(kind) ==
    CASE kind = "array" -> "kArray"
      [] kind = "bool" -> "kBool"
      [] kind = "i32" -> "kI32"
      [] kind = "u32" -> "kU32"
      [] kind = "i64" -> "kI64"
      [] OTHER -> "kU64"
ParameterToProto(param) ==
    IF IsArray(param)
    THEN [value_case |-> ValueCase(param.kind),
          array |-> [bytes_to_zero |-> param.bytes_to_zero,
                     ptr_divisibility |-> param.ptr_divisibility]]
    ELSE [value_case |-> ValueCase(param.kind), scalar |-> param.value]
\* Parameter::FromProto: the switch over value_case
ParameterFromProto(proto) ==
    CASE proto.value_case = "kArray" ->
           [ok |-> TRUE,
            value |-> Array(proto.array.bytes_to_zero, proto.array.ptr_divisibility)]
      [] proto.value_case = "kBool" -> [ok |-> TRUE, value |-> Scalar("bool", proto.scalar)]
      [] proto.value_case = "kI32" -> [ok |-> TRUE, value |-> Scalar("i32", proto.scalar)]
      [] proto.value_case = "kU32" -> [ok |-> TRUE, value |-> Scalar("u32", proto.scalar)]
      [] proto.value_case = "kI64" -> [ok |-> TRUE, value |-> Scalar("i64", proto.scalar)]
      [] proto.value_case = "kU64" -> [ok |-> TRUE, value |-> Scalar("u64", proto.scalar)]
      [] OTHER -> [ok |-> FALSE, status |-> "Unknown scalar parameter type."]

\* KernelCall::KernelCall
KernelCall(kernel, grid_0, grid_1, grid_2, parameters) ==
    [kernel_ |-> kernel, grid_ |-> <<grid_0, grid_1, grid_2>>, parameters_ |-> parameters]
KernelCallToProto(call) ==
    [kernel |-> KernelToProto(call.kernel_),
     grid_0 |-> call.grid_[1], grid_1 |-> call.grid_[2], grid_2 |-> call.grid_[3],
     parameters |-> [i \in 1..Len(call.parameters_) |-> ParameterToProto(call.parameters_[i])]]
KernelCallFromProto(proto) ==
    LET ps == [i \in 1..Len(proto.parameters) |-> ParameterFromProto(proto.parameters[i])]
    IN  IF \E i \in 1..Len(ps) : ~ps[i].ok
        THEN [ok |-> FALSE, status |-> "Unknown scalar parameter type."]
        ELSE [ok |-> TRUE,
              value |-> KernelCall(KernelFromProto(proto.kernel), proto.grid_0,
                                   proto.grid_1, proto.grid_2,
                                   [i \in 1..Len(ps) |-> ps[i].value])]

\* AutotunedKernelCall::AutotunedKernelCall
AutotunedKernelCall(name, configs, input_output_aliases) ==
    [name_ |-> name, configs_ |-> configs, input_output_aliases_ |-> input_output_aliases]
Config(kernel_call, description) == [kernel_call |-> kernel_call, description |-> description]
AutotunedToProto(call) ==
    [name |-> call.name_,
     configs |-> [i \in 1..Len(call.configs_) |->
                    [kernel_call |-> KernelCallToProto(call.configs_[i].kernel_call),
                     description |-> call.configs_[i].description]],
     input_output_aliases |->
         [i \in 1..Len(call.input_output_aliases_) |->
            [input_buffer_idx |-> call.input_output_aliases_[i].input_idx,
             output_buffer_idx |-> call.input_output_aliases_[i].output_idx,
             buffer_size_bytes |-> call.input_output_aliases_[i].size]]]
AutotunedFromProto(proto) ==
    LET cs == [i \in 1..Len(proto.configs) |-> KernelCallFromProto(proto.configs[i].kernel_call)]
    IN  IF \E i \in 1..Len(cs) : ~cs[i].ok
        THEN [ok |-> FALSE, status |-> "Unknown scalar parameter type."]
        ELSE [ok |-> TRUE,
              value |-> AutotunedKernelCall(
                  proto.name,
                  [i \in 1..Len(cs) |-> Config(cs[i].value, proto.configs[i].description)],
                  [i \in 1..Len(proto.input_output_aliases) |->
                     Alias(proto.input_output_aliases[i].input_buffer_idx,
                           proto.input_output_aliases[i].output_buffer_idx,
                           proto.input_output_aliases[i].buffer_size_bytes)])]


\* The objects of the round trip.
WarpChoices == {1, 4, kUint32Warps + 2}
ProtoKernels ==
    { Kernel("add", w, smem, "ptx_a", "ttir_a", 80) : w \in WarpChoices, smem \in {0, 65536} }
ProtoParams == { Array(0, 0), Array(4, 16), Scalar("bool", 1), Scalar("i32", 0 - 1),
                 Scalar("u32", 7), Scalar("i64", 0 - 1), Scalar("u64", 7) }
ProtoParamLists == UNION { [1..n -> ProtoParams] : n \in 0..MaxProtoParams }
KernelCalls ==
    { KernelCall(k, g[1], g[2], g[3], ps) :
        k \in ProtoKernels, g \in {<<1, 1, 1>>, <<2, 3, 4>>}, ps \in ProtoParamLists }
ProtoConfigs ==
    { Config(KernelCall(k, 2, 3, 4, ps), d) :
        k \in ProtoKernels, ps \in {<<>>, <<Array(4, 16), Scalar("i64", 0 - 1)>>},
        d \in {"block=64", "block=128"} }
AutotunedKernelCalls ==
    { AutotunedKernelCall("add", cs, al) :
        cs \in UNION { [1..n -> ProtoConfigs] : n \in 0..MaxProtoConfigs },
        al \in AliasChoices }
Object(type, call) == [type |-> type, call |-> call]
Objects == { Object("KernelCall", c) : c \in KernelCalls }
             \cup { Object("AutotunedKernelCall", c) : c \in AutotunedKernelCalls }

ProtoInit ==
    /\ pobject \in Objects
    /\ pproto = <<>>
    /\ pdecoded = <<>>
    /\ ppc = "object"

\* ToProto of the object, by its class
ToProto ==
    /\ ppc = "object"
    /\ pproto' = Object(pobject.type,
                        IF pobject.type = "KernelCall" THEN KernelCallToProto(pobject.call)
                        ELSE AutotunedToProto(pobject.call))
    /\ ppc' = "encoded"
    /\ UNCHANGED <<pobject, pdecoded>>

\* FromProto of the record, by its class
FromProto ==
    /\ ppc = "encoded"
    /\ pdecoded' = IF pproto.type = "KernelCall" THEN KernelCallFromProto(pproto.call)
                   ELSE AutotunedFromProto(pproto.call)
    /\ ppc' = "decoded"
    /\ UNCHANGED <<pobject, pproto>>

ProtoFrame == UNCHANGED <<tuneVars, launchVars, imageVars, funcVars, decodeVars,
                          entryVars, contextVars, zlibVars, itersVars>>
ProtoNext ==
    \/ ToProto /\ ProtoFrame
    \/ FromProto /\ ProtoFrame

InitProto == ProtoInit /\ TuneIdle /\ LaunchIdle /\ ImageIdle /\ FuncIdle /\ DecodeIdle
              /\ EntryIdle /\ ContextIdle /\ ZlibIdle /\ ItersIdle
SpecProto == InitProto /\ [][ProtoNext]_vars

\* C15: decoding the encoding of a KernelCall or an AutotunedKernelCall
\* succeeds and gives an object with the same kernel name, block width,
\* shared-memory bytes, assembly and IR text, architecture, grid, ordered
\* parameters with their tags and values, ordered configs with their
\* descriptions, and aliasing triples.
C15_RoundTrip ==
    ppc = "decoded" => pdecoded.ok /\ pdecoded.value = pobject.call
C15_Witness ==
    /\ ppc = "decoded"
    /\ pobject.type = "AutotunedKernelCall"
    /\ Len(pobject.call.configs_) = 2
    /\ pobject.call.configs_[1].kernel_call.kernel_.block_dim_x_ = 64
    /\ Len(pobject.call.configs_[2].kernel_call.parameters_) = 2
    /\ Len(pobject.call.input_output_aliases_) = 2
    /\ pdecoded.ok /\ pdecoded.value = pobject.call


(***************************************************************************)
(* The phase-2 iteration count (Autotune, lines 454-470)                   *)
(***************************************************************************)
\* Elapsed times the timer can report for one launch, in microseconds.
ReportedTimes == {0, 1, 50, 99, 100, 101, 150, 4000, 9999, 10000, 10001, 20000}
NumItersConfigs == 2

ItersInit ==
    /\ itimes \in [1..NumItersConfigs -> ReportedTimes]
    /\ ibest = Infinity
    /\ ipos = 1
    /\ iiters = 0

\* best = std::min(best, t) for the next config
ItersPhase1 ==
    /\ ipos \in 1..Len(itimes)
    /\ ibest' = Min(ibest, itimes[ipos])
    /\ ipos' = ipos + 1
    /\ UNCHANGED <<itimes, iiters>>

\* int timed_iters = ... (lines 462-470)
ItersCompute ==
    /\ ipos = Len(itimes) + 1
    /\ iiters' \in TimedIters(ibest)
    /\ ipos' = 0
    /\ UNCHANGED <<itimes, ibest>>

ItersFrame == UNCHANGED <<tuneVars, launchVars, imageVars, funcVars, decodeVars,
                          entryVars, contextVars, zlibVars, protoVars>>
ItersNext ==
    \/ ItersPhase1 /\ ItersFrame
    \/ ItersCompute /\ ItersFrame

InitIters == ItersInit /\ TuneIdle /\ LaunchIdle /\ ImageIdle /\ FuncIdle /\ DecodeIdle
              /\ EntryIdle /\ ContextIdle /\ ZlibIdle /\ ProtoIdle
SpecIters == InitIters /\ [][ItersNext]_vars

\* max(1, floor(10 ms / t)) capped at 100, for a least time of t microseconds;
\* for t = 0 the quotient is unbounded and the cap applies.
ExpectedIters(t) ==
    IF t = 0 THEN 100 ELSE Min(100, Max(1, (kBenchmarkTimeMillis * 1000) \div t))
\* C18: for every least phase-1 time the timer can report, 0 included, the
\* iteration count is max(1, floor(10 ms / least time)) capped at 100, and so
\* lies in 1..100.
C18_ItersInRange ==
    ipos = 0 =>
        /\ iiters = ExpectedIters(ibest)
        /\ iiters \in 1..100

====
